---------------------------- MODULE Spec2Model ----------------------------
(***************************************************************************)
(* A model of the contractor scraping pipeline: the ETL normalizer, the    *)
(* confidence scorer, the upsert storage layer (save_contractor and its    *)
(* helpers over the three tables), the navigation retry loop of the two    *)
(* scrapers and the orchestrator of scrape_main.py.                        *)
(*                                                                         *)
(* Values.  A Python Optional is a sequence of length at most one: None is *)
(* <<>> and a present value v is <<v>>.  A Python str is a sequence of     *)
(* one-character strings, so "NY" is <<"N", "Y">> and "" is <<>>; an       *)
(* Optional[str] holding "" is therefore << <<>> >>.  A Python list is a   *)
(* sequence.  A float rating is modelled by an integer.                    *)
(***************************************************************************)
EXTENDS Integers, Sequences, FiniteSets, TLC

None == <<>>
Some(v) == <<v>>
IsNone(o) == o = <<>>
Val(o) == o[1]

\* Python truthiness of an Optional[str] / Optional[int]: `if x:`
TruthyStr(o) == o # <<>> /\ o[1] # <<>>
TruthyInt(o) == o # <<>> /\ o[1] # 0

(***************************************************************************)
(* Characters and the str methods the normalizer uses.                     *)
(***************************************************************************)
\* str.isspace() / the regex class \s: the ASCII whitespace characters,
\* \x0b ("^K") and \x0c ("^L"), and the separators \x1c..\x1f ("^_").
WhitespaceChars == {" ", "\t", "\n", "\r", "^K", "^L", "^_"}

\* The class [\x00-\x08\x0b-\x0c\x0e-\x1f\x7f-\x9f] of _clean_text:
\* "^A" is \x01, "DEL" is \x7f.
ControlChars == {"^A", "^K", "^L", "^_", "DEL"}

DigitChars == {"0", "1", "2", "3", "4", "5", "6", "7", "8", "9"}

LowerAlpha == <<"a", "b", "c", "d", "e", "f", "g", "h", "i", "j", "k", "l", "m",
                "n", "o", "p", "q", "r", "s", "t", "u", "v", "w", "x", "y", "z">>
UpperAlpha == <<"A", "B", "C", "D", "E", "F", "G", "H", "I", "J", "K", "L", "M",
                "N", "O", "P", "Q", "R", "S", "T", "U", "V", "W", "X", "Y", "Z">>

IsLower(c) == \E i \in 1..Len(LowerAlpha) : LowerAlpha[i] = c
IsUpper(c) == \E i \in 1..Len(UpperAlpha) : UpperAlpha[i] = c
IsCased(c) == IsLower(c) \/ IsUpper(c)

UpperChar(c) ==
    IF IsLower(c)
    THEN UpperAlpha[CHOOSE i \in 1..Len(LowerAlpha) : LowerAlpha[i] = c]
    ELSE c
LowerChar(c) ==
    IF IsUpper(c)
    THEN LowerAlpha[CHOOSE i \in 1..Len(UpperAlpha) : UpperAlpha[i] = c]
    ELSE c

\* str.upper(), str.lower()
StrUpper(s) == [i \in 1..Len(s) |-> UpperChar(s[i])]
StrLower(s) == [i \in 1..Len(s) |-> LowerChar(s[i])]

\* str.title(): a cased character is upper-cased when the character before
\* it is not cased, and lower-cased otherwise.
StrTitle(s) ==
    [i \in 1..Len(s) |->
        IF i > 1 /\ IsCased(s[i - 1]) THEN LowerChar(s[i]) ELSE UpperChar(s[i])]

RECURSIVE LStrip(_)
LStrip(s) ==
    IF s # <<>> /\ Head(s) \in WhitespaceChars THEN LStrip(Tail(s)) ELSE s

RECURSIVE RStrip(_)
RStrip(s) ==
    IF s # <<>> /\ s[Len(s)] \in WhitespaceChars
    THEN RStrip(SubSeq(s, 1, Len(s) - 1))
    ELSE s

\* str.strip()
StrStrip(s) == RStrip(LStrip(s))

\* s[:n]
Prefix(s, n) == SubSeq(s, 1, IF Len(s) < n THEN Len(s) ELSE n)

\* `key in s` for strings
IsSubstring(key, s) ==
    \E i \in 1..(Len(s) - Len(key) + 1) : SubSeq(s, i, i + Len(key) - 1) = key

\* s.startswith(p)
StartsWith(s, p) == Len(s) >= Len(p) /\ SubSeq(s, 1, Len(p)) = p

\* re.sub(r'\s+', ' ', s): every maximal run of whitespace becomes one space
RECURSIVE CollapseWhitespace(_)
CollapseWhitespace(s) ==
    IF s = <<>> THEN <<>>
    ELSE IF Head(s) \in WhitespaceChars
         THEN <<" ">> \o CollapseWhitespace(LStrip(s))
         ELSE <<Head(s)>> \o CollapseWhitespace(Tail(s))

\* re.sub(r'[\x00-\x08\x0b-\x0c\x0e-\x1f\x7f-\x9f]', '', s)
RemoveControl(s) == SelectSeq(s, LAMBDA c : c \notin ControlChars)

\* re.sub(r',\s*,', ',', s): matches are found left to right, not overlapping
RECURSIVE RemoveDoubleCommas(_)
RemoveDoubleCommas(s) ==
    IF s = <<>> THEN <<>>
    ELSE IF Head(s) = "," /\ LStrip(Tail(s)) # <<>> /\ Head(LStrip(Tail(s))) = ","
         THEN <<",">> \o RemoveDoubleCommas(Tail(LStrip(Tail(s))))
         ELSE <<Head(s)>> \o RemoveDoubleCommas(Tail(s))

\* sep.join(parts) for a list of str
RECURSIVE StrJoin(_, _)
StrJoin(sep, parts) ==
    IF parts = <<>> THEN <<>>
    ELSE IF Len(parts) = 1 THEN parts[1]
         ELSE parts[1] \o sep \o StrJoin(sep, Tail(parts))

(***************************************************************************)
(* ETLProcessor                                                            *)
(***************************************************************************)
\* _clean_text
CleanText(text) ==
    IF ~TruthyStr(text) THEN None
    ELSE LET collapsed == CollapseWhitespace(StrStrip(Val(text)))
             cleaned == RemoveControl(collapsed)
         IN  IF cleaned # <<>> THEN Some(cleaned) ELSE None

\* _normalize_years
NormalizeYears(years) ==
    IF IsNone(years) THEN None
    ELSE IF 0 <= Val(years) /\ Val(years) <= 200 THEN years ELSE None

\* _normalize_start_year; year_now is datetime.now().year
NormalizeStartYear(year, year_now) ==
    IF IsNone(year) THEN None
    ELSE IF 1800 <= Val(year) /\ Val(year) <= year_now THEN year ELSE None

\* _clean_address
CleanAddress(address) ==
    IF ~TruthyStr(address) THEN None
    ELSE LET collapsed == CollapseWhitespace(StrStrip(Val(address)))
             cleaned == RemoveDoubleCommas(collapsed)
         IN  IF cleaned # <<>> THEN Some(cleaned) ELSE None

CleanPhone_AnyLeadingOne(phone) ==
    IF ~TruthyStr(phone) THEN None
    ELSE LET kept == SelectSeq(Val(phone), LAMBDA c : c \in DigitChars \/ c = "+")
             cleaned ==
                 IF StartsWith(kept, <<"+", "1">>) THEN SubSeq(kept, 3, Len(kept))
                 ELSE IF StartsWith(kept, <<"1">>)
                      THEN SubSeq(kept, 2, Len(kept))
                      ELSE kept
         IN  IF Len(cleaned) = 10 /\ \A i \in 1..Len(cleaned) : cleaned[i] \in DigitChars
             THEN Some(cleaned)
             ELSE None

\* _clean_phone
CleanPhone(phone) ==
    IF ~TruthyStr(phone) THEN None
    ELSE LET kept == SelectSeq(Val(phone), LAMBDA c : c \in DigitChars \/ c = "+")
             cleaned ==
                 IF StartsWith(kept, <<"+", "1">>) THEN SubSeq(kept, 3, Len(kept))
                 ELSE IF StartsWith(kept, <<"1">>) /\ Len(kept) = 11
                      THEN SubSeq(kept, 2, Len(kept))
                      ELSE kept
         IN  IF Len(cleaned) = 10 /\ \A i \in 1..Len(cleaned) : cleaned[i] \in DigitChars
             THEN Some(cleaned)
             ELSE None

\* CERTIFICATION_NORMALIZATION, in the dict's insertion order
CERTIFICATION_NORMALIZATION ==
    << << <<"m","a","s","t","e","r"," ","e","l","i","t","e">>,
         <<"M","a","s","t","e","r"," ","E","l","i","t","e">> >>,
       << <<"m","a","s","t","e","r"," ","e","l","i","t","e"," ",
            "c","o","n","t","r","a","c","t","o","r">>,
         <<"M","a","s","t","e","r"," ","E","l","i","t","e">> >>,
       << <<"g","a","f"," ","m","a","s","t","e","r"," ","e","l","i","t","e">>,
         <<"M","a","s","t","e","r"," ","E","l","i","t","e">> >>,
       << <<"c","e","r","t","i","f","i","e","d">>,
         <<"C","e","r","t","i","f","i","e","d">> >>,
       << <<"c","e","r","t","i","f","i","e","d"," ",
            "c","o","n","t","r","a","c","t","o","r">>,
         <<"C","e","r","t","i","f","i","e","d">> >> >>

\* _normalize_certification
NormalizeCertification(cert) ==
    IF cert = <<>> THEN <<>>
    ELSE LET cert_lower == StrStrip(StrLower(cert))
             hits == {i \in 1..Len(CERTIFICATION_NORMALIZATION) :
                         IsSubstring(CERTIFICATION_NORMALIZATION[i][1], cert_lower)}
         IN  IF hits # {}
             THEN CERTIFICATION_NORMALIZATION[CHOOSE i \in hits : \A j \in hits : i <= j][2]
             ELSE StrTitle(StrStrip(cert))

\* a normalization that leaves the state as it is
ProcessListingData_KeepState(raw) ==
    [raised |-> FALSE,
     value |-> [raw EXCEPT !.contractor_name = CleanText(raw.contractor_name),
                           !.city = CleanText(raw.city)]]

\* process_listing_data.  state.upper() raises AttributeError when state is
\* None; the result says whether the call raised.
ProcessListingData(raw) ==
    IF IsNone(raw.state)
    THEN [raised |-> TRUE, value |-> raw]
    ELSE [raised |-> FALSE,
          value |-> [raw EXCEPT
              !.contractor_name = CleanText(raw.contractor_name),
              !.city = CleanText(raw.city),
              !.state = Some(Prefix(StrStrip(StrUpper(Val(raw.state))), 2)),
              !.certifications =
                  [i \in 1..Len(raw.certifications) |->
                      NormalizeCertification(raw.certifications[i])]]]

\* process_profile_data
ProcessProfileData(raw, year_now) ==
    [raw EXCEPT
        !.years_in_business = NormalizeYears(raw.years_in_business),
        !.business_start_year = NormalizeStartYear(raw.business_start_year, year_now),
        !.address = CleanAddress(raw.address),
        !.phone = CleanPhone(raw.phone),
        !.about_text = CleanText(raw.about_text),
        !.review_snippets =
            [i \in 1..Len(raw.review_snippets) |-> CleanText(Some(raw.review_snippets[i]))]]

Point(b) == IF b THEN 1 ELSE 0

ConfidenceScore_InvertedRating(listing_data, profile_data) ==
      Point(TruthyStr(listing_data.contractor_name))
    + Point(TruthyStr(listing_data.city) /\ TruthyStr(listing_data.state))
    + Point(IsNone(listing_data.rating))
    + Point(TruthyStr(listing_data.profile_url))
    + Point(TruthyStr(profile_data.address))
    + Point(TruthyStr(profile_data.phone))
    + Point(TruthyInt(profile_data.years_in_business))
    + Point(TruthyStr(profile_data.employee_range))
    + Point(TruthyStr(profile_data.about_text))
    + Point(profile_data.review_snippets # <<>>)

\* the checklist of calculate_data_confidence
ConfidenceScore(listing_data, profile_data) ==
      Point(TruthyStr(listing_data.contractor_name))
    + Point(TruthyStr(listing_data.city) /\ TruthyStr(listing_data.state))
    + Point(~IsNone(listing_data.rating))
    + Point(TruthyStr(listing_data.profile_url))
    + Point(TruthyStr(profile_data.address))
    + Point(TruthyStr(profile_data.phone))
    + Point(TruthyInt(profile_data.years_in_business))
    + Point(TruthyStr(profile_data.employee_range))
    + Point(TruthyStr(profile_data.about_text))
    + Point(profile_data.review_snippets # <<>>)

\* the thresholds of calculate_data_confidence
ConfidenceLevel(score) ==
    IF score >= 8 THEN "high" ELSE IF score >= 5 THEN "medium" ELSE "low"

\* calculate_data_confidence
CalculateDataConfidence(listing_data, profile_data) ==
    ConfidenceLevel(ConfidenceScore(listing_data, profile_data))

(***************************************************************************)
(* The persisted tables.  A database is a record of three tables, each a   *)
(* sequence of rows: contractors (a row's id is its position, SQLite's     *)
(* max(rowid) + 1), certifications and contractor_text.                    *)
(***************************************************************************)
EmptyDb == [contractors |-> <<>>, certifications |-> <<>>, contractor_text |-> <<>>]

\* a lookup that lost its filter: the first row, whatever its external id
QueryByExternalId_NoFilter(db, external_id) ==
    IF db.contractors = <<>> THEN 0 ELSE 1

\* db.query(Contractor).filter(external_contractor_id == external_id).first():
\* the id of the first matching row, 0 when there is none
QueryByExternalId(db, external_id) ==
    LET hits == {i \in 1..Len(db.contractors) :
                    db.contractors[i].external_contractor_id = external_id}
    IN  IF hits = {} THEN 0 ELSE CHOOSE i \in hits : \A j \in hits : i <= j

\* _create_contractor: the new row; id and last_scraped_at are set by the
\* INSERT (0 stands for "not yet assigned")
CreateContractor(listing_data, profile_data, data_confidence) ==
    [id |-> 0,
     contractor_name |-> listing_data.contractor_name,
     rating |-> listing_data.rating,
     review_count |-> listing_data.review_count,
     city |-> listing_data.city,
     state |-> listing_data.state,
     profile_url |-> listing_data.profile_url,
     external_contractor_id |-> listing_data.external_contractor_id,
     years_in_business |-> profile_data.years_in_business,
     business_start_year |-> profile_data.business_start_year,
     employee_range |-> profile_data.employee_range,
     state_license_number |-> profile_data.state_license_number,
     address |-> profile_data.address,
     phone |-> profile_data.phone,
     data_confidence |-> data_confidence,
     last_scraped_at |-> 0]

\* an update that assigns every field, empty or not
UpdateContractor_Overwrite(contractor, listing_data, profile_data, data_confidence) ==
    [contractor EXCEPT
        !.contractor_name = listing_data.contractor_name,
        !.rating = listing_data.rating,
        !.review_count = listing_data.review_count,
        !.city = listing_data.city,
        !.state = listing_data.state,
        !.profile_url = listing_data.profile_url,
        !.years_in_business = profile_data.years_in_business,
        !.business_start_year = profile_data.business_start_year,
        !.employee_range = profile_data.employee_range,
        !.state_license_number = profile_data.state_license_number,
        !.address = profile_data.address,
        !.phone = profile_data.phone,
        !.data_confidence = data_confidence]

\* an update that tests review_count by truthiness, like the text fields
UpdateContractor_TruthyCount(contractor, listing_data, profile_data, data_confidence) ==
    [contractor EXCEPT
        !.contractor_name =
            IF TruthyStr(listing_data.contractor_name) THEN listing_data.contractor_name ELSE @,
        !.rating = IF ~IsNone(listing_data.rating) THEN listing_data.rating ELSE @,
        !.review_count =
            IF TruthyInt(listing_data.review_count) THEN listing_data.review_count ELSE @,
        !.city = IF TruthyStr(listing_data.city) THEN listing_data.city ELSE @,
        !.state = IF TruthyStr(listing_data.state) THEN listing_data.state ELSE @,
        !.profile_url =
            IF TruthyStr(listing_data.profile_url) THEN listing_data.profile_url ELSE @,
        !.years_in_business =
            IF ~IsNone(profile_data.years_in_business)
            THEN profile_data.years_in_business ELSE @,
        !.business_start_year =
            IF ~IsNone(profile_data.business_start_year)
            THEN profile_data.business_start_year ELSE @,
        !.employee_range =
            IF TruthyStr(profile_data.employee_range) THEN profile_data.employee_range ELSE @,
        !.state_license_number =
            IF TruthyStr(profile_data.state_license_number)
            THEN profile_data.state_license_number ELSE @,
        !.address = IF TruthyStr(profile_data.address) THEN profile_data.address ELSE @,
        !.phone = IF TruthyStr(profile_data.phone) THEN profile_data.phone ELSE @,
        !.data_confidence = data_confidence]

\* an update that leaves data_confidence as it is stored
UpdateContractor_KeepConfidence(contractor, listing_data, profile_data, data_confidence) ==
    [UpdateContractor_TruthyCount(contractor, listing_data, profile_data, data_confidence)
        EXCEPT !.data_confidence = contractor.data_confidence]

\* _update_contractor
UpdateContractor(contractor, listing_data, profile_data, data_confidence) ==
    [contractor EXCEPT
        !.contractor_name =
            IF TruthyStr(listing_data.contractor_name) THEN listing_data.contractor_name ELSE @,
        !.rating = IF ~IsNone(listing_data.rating) THEN listing_data.rating ELSE @,
        !.review_count =
            IF ~IsNone(listing_data.review_count) THEN listing_data.review_count ELSE @,
        !.city = IF TruthyStr(listing_data.city) THEN listing_data.city ELSE @,
        !.state = IF TruthyStr(listing_data.state) THEN listing_data.state ELSE @,
        !.profile_url =
            IF TruthyStr(listing_data.profile_url) THEN listing_data.profile_url ELSE @,
        !.years_in_business =
            IF ~IsNone(profile_data.years_in_business)
            THEN profile_data.years_in_business ELSE @,
        !.business_start_year =
            IF ~IsNone(profile_data.business_start_year)
            THEN profile_data.business_start_year ELSE @,
        !.employee_range =
            IF TruthyStr(profile_data.employee_range) THEN profile_data.employee_range ELSE @,
        !.state_license_number =
            IF TruthyStr(profile_data.state_license_number)
            THEN profile_data.state_license_number ELSE @,
        !.address = IF TruthyStr(profile_data.address) THEN profile_data.address ELSE @,
        !.phone = IF TruthyStr(profile_data.phone) THEN profile_data.phone ELSE @,
        !.data_confidence = data_confidence]

\* a column without the unique constraint
UniqueViolation_Off(db, row) == FALSE

\* Column(String(100), unique=True) on external_contractor_id: inserting
\* `row` would give two rows the same non-NULL value
UniqueViolation(db, row) ==
    /\ ~IsNone(row.external_contractor_id)
    /\ \E i \in 1..Len(db.contractors) :
          db.contractors[i].external_contractor_id = row.external_contractor_id

\* Column(String(255), nullable=False) on contractor_name
NotNullViolation(row) == IsNone(row.contractor_name)

\* onupdate=func.now(): the unit of work emits an UPDATE for a row only when
\* one of its columns has a net change, and the UPDATE sets last_scraped_at
FlushUpdate(old, new, t) ==
    IF new # old THEN [new EXCEPT !.last_scraped_at = t] ELSE old

\* server_default=func.now(), and the primary key the INSERT assigns
FlushInsert(db, row, t) ==
    [row EXCEPT !.id = Len(db.contractors) + 1, !.last_scraped_at = t]

\* _save_certifications: delete the contractor's rows, add one per non-empty name
SaveCertifications(db, contractor_id, certs) ==
    LET kept == SelectSeq(db.certifications, LAMBDA r : r.contractor_id # contractor_id)
        named == SelectSeq(certs, LAMBDA c : c # <<>>)
        added == [i \in 1..Len(named) |->
                     [contractor_id |-> contractor_id,
                      name |-> named[i],
                      original_text |-> named[i]]]
    IN  [db EXCEPT !.certifications = kept \o added]

\* a text row that is added only when it has content
InsertTextRow_IfContent(table, row) ==
    IF IsNone(row.about_text) /\ IsNone(row.review_snippets) THEN table ELSE Append(table, row)

\* self.db.add(text_data) of _save_text_data
InsertTextRow(table, row) == Append(table, row)

\* the separator of _save_text_data
SNIPPET_SEPARATOR == <<"\n", "\n", "-", "-", "-", "\n", "\n">>

\* _save_text_data.  str.join raises TypeError on a None item; the result
\* says whether the call raised.
SaveTextData(db, contractor_id, profile_data) ==
    LET review_snippets == profile_data.review_snippets
        hits == {i \in 1..Len(db.contractor_text) :
                    db.contractor_text[i].contractor_id = contractor_id}
        join_raises == \E i \in 1..Len(review_snippets) : IsNone(review_snippets[i])
        review_text ==
            IF review_snippets # <<>>
            THEN Some(StrJoin(SNIPPET_SEPARATOR,
                              [i \in 1..Len(review_snippets) |-> Val(review_snippets[i])]))
            ELSE None
    IN  IF join_raises THEN [raised |-> TRUE, db |-> db]
        ELSE IF hits # {}
        THEN LET k == CHOOSE i \in hits : \A j \in hits : i <= j
             IN  [raised |-> FALSE,
                  db |-> [db EXCEPT
                      !.contractor_text[k].about_text =
                          IF TruthyStr(profile_data.about_text)
                          THEN profile_data.about_text ELSE @,
                      !.contractor_text[k].review_snippets =
                          IF TruthyStr(review_text) THEN review_text ELSE @]]
        ELSE [raised |-> FALSE,
              db |-> [db EXCEPT !.contractor_text =
                  InsertTextRow(@, [contractor_id |-> contractor_id,
                                    about_text |-> profile_data.about_text,
                                    review_snippets |-> review_text])]]

\* ContractorText.contractor_id is unique=True: the pending INSERT of a second
\* row for one contractor fails when the commit flushes it
CommitViolation(db) ==
    \E i, j \in 1..Len(db.contractor_text) :
        i # j /\ db.contractor_text[i].contractor_id = db.contractor_text[j].contractor_id

\* a rollback that keeps what the session had flushed
Rollback_Keep(committed, working) == working

\* self.db.rollback(): the session returns to the last committed state
Rollback(committed, working) == committed

\* what save_contractor returns: the contractor (its id) or None (id 0)
Failure(committed, working) == [db |-> Rollback(committed, working), ok |-> FALSE, id |-> 0]
Saved(db, contractor_id) == [db |-> db, ok |-> TRUE, id |-> contractor_id]

\* The points of save_contractor at which the storage session may raise an
\* exception of its own (a locked or lost database): at the flush, in
\* _save_certifications, in _save_text_data, at the commit.
Faults == {"none", "flush", "certs", "text", "commit"}

\* save_contractor, from the flush on: `working` holds the created or merged
\* row `row` of contractor `cid`
SaveFromFlush(db, cid, row, is_update, pl, pp, fault, t) ==
    IF \/ fault = "flush"
       \/ ~is_update /\ (NotNullViolation(row) \/ UniqueViolation(db, row))
    THEN Failure(db, db)
    ELSE
    LET flushed ==
            IF is_update
            THEN [db EXCEPT !.contractors[cid] = FlushUpdate(db.contractors[cid], row, t)]
            ELSE [db EXCEPT !.contractors = Append(@, FlushInsert(db, row, t))]
        has_certs == pl.certifications # <<>>
    IN  IF has_certs /\ fault = "certs" THEN Failure(db, flushed)
        ELSE
        LET with_certs ==
                IF has_certs
                THEN SaveCertifications(flushed, cid, pl.certifications)
                ELSE flushed
            text == SaveTextData(with_certs, cid, pp)
        IN  IF fault = "text" \/ text.raised THEN Failure(db, with_certs)
            ELSE IF fault = "commit" \/ CommitViolation(text.db)
                 THEN Failure(db, text.db)
                 ELSE Saved(text.db, cid)

(***************************************************************************)
(* ProfileScraper._extract_employee_range                                  *)
(***************************************************************************)
DecimalDigits == <<"0", "1", "2", "3", "4", "5", "6", "7", "8", "9">>

\* the maximal run of digits s starts with
RECURSIVE DigitRun(_)
DigitRun(s) ==
    IF s # <<>> /\ Head(s) \in DigitChars THEN <<Head(s)>> \o DigitRun(Tail(s)) ELSE <<>>

\* int(digits)
RECURSIVE IntOf(_)
IntOf(digits) ==
    IF digits = <<>> THEN 0
    ELSE IntOf(SubSeq(digits, 1, Len(digits) - 1)) * 10
         + ((CHOOSE i \in 1..10 : DecimalDigits[i] = digits[Len(digits)]) - 1)

\* str(n) for n >= 0
RECURSIVE StrOfInt(_)
StrOfInt(n) ==
    IF n < 10 THEN <<DecimalDigits[n + 1]>>
    ELSE StrOfInt(n \div 10) \o <<DecimalDigits[(n % 10) + 1]>>

\* re.search(r'(\d+)', s): the group of the leftmost match, or None
RECURSIVE SearchNumber(_)
SearchNumber(s) ==
    IF s = <<>> THEN None
    ELSE IF Head(s) \in DigitChars THEN Some(DigitRun(s))
         ELSE SearchNumber(Tail(s))

\* re.search(r'(\d+[-–]\d+)', s): the group of the leftmost match, or None
\* ("ndash" is the en dash)
RECURSIVE SearchRange(_)
SearchRange(s) ==
    IF s = <<>> THEN None
    ELSE LET low == DigitRun(s)
             rest == SubSeq(s, Len(low) + 1, Len(s))
         IN  IF low # <<>> /\ Len(rest) >= 2 /\ rest[1] \in {"-", "ndash"}
                /\ rest[2] \in DigitChars
             THEN Some(low \o <<rest[1]>> \o DigitRun(Tail(rest)))
             ELSE SearchRange(Tail(s))

\* _extract_employee_range for the description of the "number of employees"
\* item of the Details section (None: the page has no such item)
ExtractEmployeeRange(desc) ==
    IF IsNone(desc) THEN None
    ELSE LET text == StrStrip(Val(desc))
             text_lower == StrLower(text)
             match == SearchNumber(text)
             num == IntOf(Val(match))
             range_match == SearchRange(text)
         IN  IF (IsSubstring(<<"m", "o", "r", "e", " ", "t", "h", "a", "n">>, text_lower)
                 \/ IsSubstring(<<"o", "v", "e", "r">>, text_lower))
                /\ match # None
             THEN Some(IF num < 5 THEN <<"1", "-", "1", "0">>
                       ELSE IF num < 11 THEN <<"1", "1", "-", "5", "0">>
                       ELSE IF num < 51 THEN <<"5", "1", "-", "2", "0", "0">>
                       ELSE <<"2", "0", "1", "+">>)
             ELSE IF ~(IsSubstring(<<"m", "o", "r", "e", " ", "t", "h", "a", "n">>, text_lower)
                       \/ IsSubstring(<<"o", "v", "e", "r">>, text_lower))
                     /\ (IsSubstring(<<"l", "e", "s", "s", " ", "t", "h", "a", "n">>, text_lower)
                         \/ IsSubstring(<<"u", "n", "d", "e", "r">>, text_lower))
                     /\ match # None
             THEN Some(IF num <= 11 THEN <<"1", "-", "1", "0">>
                       ELSE <<"1", "1", "-", "5", "0">>)
             ELSE IF range_match # None THEN range_match
             ELSE IF match # None
             THEN Some(IF num <= 10 THEN <<"1", "-", "1", "0">>
                       ELSE IF num <= 50 THEN <<"1", "1", "-", "5", "0">>
                       ELSE IF num <= 200 THEN <<"5", "1", "-", "2", "0", "0">>
                       ELSE <<"2", "0", "1", "+">>)
             ELSE Some(StrStrip(text))

\* the description of the employee item: the number n as it is written
EmployeeText(form, n) ==
    CASE form = "bare" -> StrOfInt(n)
      [] form = "more than" -> <<"M", "o", "r", "e", " ", "t", "h", "a", "n", " ">> \o StrOfInt(n)
      [] form = "over" -> <<"O", "v", "e", "r", " ">> \o StrOfInt(n)
                          \o <<" ", "s", "t", "a", "f", "f">>
      [] form = "less than" -> <<"L", "e", "s", "s", " ", "t", "h", "a", "n", " ">> \o StrOfInt(n)
      [] form = "under" -> <<"u", "n", "d", "e", "r", " ">> \o StrOfInt(n)
      [] form = "range" -> StrOfInt(n) \o <<"ndash">> \o StrOfInt(n + 9)
      [] OTHER -> <<"S", "m", "a", "l", "l", " ", "t", "e", "a", "m">>

(***************************************************************************)
(* ListingScraper._extract_city_state                                      *)
(***************************************************************************)
\* a full match of \s*-\s*\d+\.\d+\s*mi\s*$ on t: whitespace, "-",
\* whitespace, the digits of the whole part, ".", the digits of the
\* fraction, whitespace, "mi", whitespace to the end
IsDistanceSuffix(t) ==
    \E dash \in {LStrip(t)} :
       /\ dash # <<>> /\ Head(dash) = "-"
       /\ \E whole \in {LStrip(Tail(dash))} :
             \E point \in {SubSeq(whole, Len(DigitRun(whole)) + 1, Len(whole))} :
                /\ Len(point) < Len(whole)
                /\ point # <<>> /\ Head(point) = "."
                /\ \E unit \in {SubSeq(point, Len(DigitRun(Tail(point))) + 2, Len(point))} :
                      /\ Len(unit) < Len(point) - 1
                      /\ \E mi \in {LStrip(unit)} :
                            /\ StartsWith(mi, <<"m", "i">>)
                            /\ LStrip(SubSeq(mi, 3, Len(mi))) = <<>>

\* re.sub(r'\s*-\s*\d+\.\d+\s*mi\s*$', '', s): the leftmost match is removed
StripDistance(s) ==
    LET matches == {i \in 1..Len(s) : IsDistanceSuffix(SubSeq(s, i, Len(s)))}
    IN  IF matches # {}
        THEN SubSeq(s, 1, (CHOOSE i \in matches : \A j \in matches : i <= j) - 1)
        ELSE s

\* s.split(sep) for a one-character sep
RECURSIVE StrSplit(_, _)
StrSplit(s, sep) ==
    IF \E i \in 1..Len(s) : s[i] = sep
    THEN LET first == CHOOSE i \in 1..Len(s) : s[i] = sep /\ \A j \in 1..(i - 1) : s[j] # sep
         IN  <<SubSeq(s, 1, first - 1)>> \o StrSplit(SubSeq(s, first + 1, Len(s)), sep)
    ELSE <<s>>

ExtractCityState_NoUpper(city_elem) ==
    IF IsNone(city_elem) THEN None
    ELSE LET split == StrSplit(StripDistance(StrStrip(Val(city_elem))), ",")
         IN  IF Len(split) >= 2
             THEN Some([city |-> StrStrip(split[1]), state |-> Prefix(StrStrip(split[2]), 2)])
             ELSE None

\* _extract_city_state for the text of p.certification-card__city (None: the
\* card has no such element): None or the dict of city and state
ExtractCityState(city_elem) ==
    IF IsNone(city_elem) THEN None
    ELSE LET city_text == StrStrip(Val(city_elem))
             city_state_part == StripDistance(city_text)
             split == StrSplit(city_state_part, ",")
             parts == [i \in 1..Len(split) |-> StrStrip(split[i])]
         IN  IF Len(parts) >= 2
             THEN Some([city |-> parts[1], state |-> Prefix(StrUpper(parts[2]), 2)])
             ELSE None

(***************************************************************************)
(* The inputs of the model: raw listing and profile dicts of the shape the *)
(* two scrapers build, with the values of a few pages.                     *)
(***************************************************************************)
\* the dict _parse_listing_element builds, for a complete card
Listing1 ==
    [contractor_name |-> Some(<<" ", "A", "c", " ", " ", "R">>),
     rating |-> Some(4),
     review_count |-> Some(7),
     city |-> Some(<<"E", "l", "m", " ">>),
     state |-> Some(<<"n", "y">>),
     certifications |-> << <<"G","A","F"," ","M","a","s","t","e","r"," ","E","l","i","t","e">> >>,
     profile_url |-> Some(<<"u", "-", "1">>),
     external_contractor_id |-> None]

\* a second complete card, every value different
Listing2 ==
    [contractor_name |-> Some(<<"B", "^A", "x">>),
     rating |-> Some(0),
     review_count |-> Some(0),
     city |-> Some(<<"R", "y", "e">>),
     state |-> Some(<<" ", "N", "J", "x">>),
     certifications |-> << <<"c","e","r","t","i","f","i","e","d"," ","p","l","u","s">>,
                           <<" ">>,
                           <<"s","o","l","a","r"," ","p","r","o">> >>,
     profile_url |-> Some(<<"u", "-", "2">>),
     external_contractor_id |-> None]

\* a card with a name only: no rating, the default review_count, no
\* certification, an empty location
ListingSparse ==
    [contractor_name |-> Some(<<"A", "c", " ", "R">>),
     rating |-> None,
     review_count |-> Some(0),
     city |-> None,
     state |-> Some(<<>>),
     certifications |-> <<>>,
     profile_url |-> Some(<<>>),
     external_contractor_id |-> None]

\* the dict scrape_profile returns for a complete page
Profile1 ==
    [years_in_business |-> Some(10),
     business_start_year |-> Some(2015),
     employee_range |-> Some(<<"1", "-", "1", "0">>),
     state_license_number |-> Some(<<"L", "1">>),
     address |-> Some(<<"1", " ", "S", "t", ",", " ", ",", "E", "l", "m">>),
     phone |-> Some(<<"+", "1", "2", "1", "2", "5", "5", "5", "0", "1", "0", "1">>),
     about_text |-> Some(<<"o", "l", "d", "\n", "\n", "c", "o">>),
     review_snippets |-> << <<"o", "k">>, <<"g", "o", "o", "d">> >>]

\* a second complete page, every value different
Profile2 ==
    [years_in_business |-> Some(0),
     business_start_year |-> Some(2026),
     employee_range |-> Some(<<"2", "0", "1", "+">>),
     state_license_number |-> Some(<<"L", "2">>),
     address |-> Some(<<"2", " ", "A", "v", "e">>),
     phone |-> Some(<<"(", "9", "7", "3", ")", "5", "6", "6", "-", "3", "0", "0", "7">>),
     about_text |-> Some(<<"n", "e", "w">>),
     review_snippets |-> << <<"f", "a", "s", "t">> >>]

\* the record scrape_profile returns when navigation or extraction fails
ProfileNull ==
    [years_in_business |-> None,
     business_start_year |-> None,
     employee_range |-> None,
     state_license_number |-> None,
     address |-> None,
     phone |-> None,
     about_text |-> None,
     review_snippets |-> <<>>]

\* The scrapes the storage layer is called with: two complete ones, a sparse
\* one, one whose name is blank, one whose state is None (a card without a
\* location), one with a blank review snippet.
Scrapes ==
    { [listing |-> Listing1, profile |-> Profile1],
      [listing |-> Listing2, profile |-> Profile2],
      [listing |-> ListingSparse, profile |-> ProfileNull],
      [listing |-> [Listing1 EXCEPT !.contractor_name = Some(<<" ">>)], profile |-> Profile2],
      [listing |-> [Listing2 EXCEPT !.state = None], profile |-> Profile1],
      [listing |-> Listing1, profile |-> [Profile1 EXCEPT !.review_snippets = << <<" ">> >>]] }

\* The values a re-scrape gives a field that it did not find or that
\* normalizes to nothing: None, "", blanks, an out-of-range number.
BlankValues(field) ==
    CASE field \in {"rating", "review_count"} -> {None}
      [] field = "years_in_business" -> {None, Some(300)}
      [] field = "business_start_year" -> {None, Some(1500)}
      [] field = "state" -> {Some(<<>>), Some(<<" ">>)}
      [] field = "review_snippets" -> {<<>>}
      [] field = "phone" -> {None, Some(<<>>), Some(<<"5", "5", "5">>)}
      [] field \in {"contractor_name", "city", "address", "about_text"} ->
             {None, Some(<<>>), Some(<<" ", "\t">>)}
      [] OTHER -> {None, Some(<<>>)}

ListingFields ==
    {"contractor_name", "rating", "review_count", "city", "state", "profile_url"}
ProfileFields ==
    {"years_in_business", "business_start_year", "employee_range",
     "state_license_number", "address", "phone", "about_text", "review_snippets"}

\* the scrapes of the merge specification: the two complete scrapes, and each
\* of them with one field blank
MergeScrapes ==
    LET full == { [listing |-> Listing1, profile |-> Profile1],
                  [listing |-> Listing2, profile |-> Profile2] }
    IN  full
        \cup UNION { UNION { { [s EXCEPT !.listing[f] = b] : b \in BlankValues(f) }
                             : f \in ListingFields } : s \in full }
        \cup UNION { UNION { { [s EXCEPT !.profile[f] = b] : b \in BlankValues(f) }
                             : f \in ProfileFields } : s \in full }

\* the external ids _extract_contractor_id derives (None: no trailing digits)
ExternalIds == {None, Some(<<"1">>), Some(<<"2">>)}

\* datetime.now().year at the time of the run
CurrentYears == {2025, 2026}

(***************************************************************************)
(* The extraction of scrape_profile.  A page is what its elements hold:    *)
(* the 4-digit year after "since" (parsed_year, None when the page has no  *)
(* such text), the text of the other elements, and the step of the         *)
(* extraction sequence that raises on it (fail_at).                        *)
(***************************************************************************)
\* _extract_business_start_year: the parsed year, kept when it passes the
\* range check
ExtractBusinessStartYear(parsed_year) ==
    IF IsNone(parsed_year) THEN None
    ELSE IF 1800 <= Val(parsed_year) /\ Val(parsed_year) <= 2024 THEN parsed_year ELSE None

\* _extract_years_in_business(soup, start_year), in year year_now
ExtractYearsInBusiness(start_year, year_now) ==
    IF TruthyInt(start_year) THEN Some(year_now - Val(start_year)) ELSE None

\* the assignments of scrape_profile, in their order
ExtractionSteps ==
    <<"business_start_year", "years_in_business", "employee_range", "state_license_number",
      "address", "phone", "about_text", "review_snippets">>

\* fail_at of a page no step raises on; 0 is a page whose page_source raises,
\* k a page on which step k raises
NoFailure == Len(ExtractionSteps) + 1

\* what every step returns on the page when none raises
ExtractAll(page, year_now) ==
    LET start_year == ExtractBusinessStartYear(page.parsed_year)
    IN  [years_in_business |-> ExtractYearsInBusiness(start_year, year_now),
         business_start_year |-> start_year,
         employee_range |-> page.employee_range,
         state_license_number |-> page.state_license_number,
         address |-> page.address,
         phone |-> page.phone,
         about_text |-> page.about_text,
         review_snippets |-> page.review_snippets]

\* profile_data when scrape_profile returns: the steps before the one that
\* raised have assigned their field, the others hold their default
ExtractProfile(page, year_now) ==
    LET all == ExtractAll(page, year_now)
    IN  [f \in DOMAIN ProfileNull |->
            LET k == CHOOSE i \in 1..Len(ExtractionSteps) : ExtractionSteps[i] = f
            IN  IF k < page.fail_at THEN all[f] ELSE ProfileNull[f]]

\* the page that yields the fields of `profile`
PageOf(profile, parsed_year, fail_at) ==
    [parsed_year |-> parsed_year,
     employee_range |-> profile.employee_range,
     state_license_number |-> profile.state_license_number,
     address |-> profile.address,
     phone |-> profile.phone,
     about_text |-> profile.about_text,
     review_snippets |-> profile.review_snippets,
     fail_at |-> fail_at]

\* the profile pages: two complete ones, one with a blank review snippet, one
\* whose page source cannot be read, one whose about section cannot be read
ProfilePages ==
    { PageOf(Profile1, Some(2015), NoFailure),
      PageOf(Profile2, Some(2026), NoFailure),
      PageOf([Profile1 EXCEPT !.review_snippets = << <<" ">> >>], Some(2015), NoFailure),
      PageOf(Profile1, Some(2015), 0),
      PageOf(Profile1, Some(2015), 7) }

(***************************************************************************)
(* ListingScraper._parse_listing_element.  A card is what its elements     *)
(* hold: the text of the heading (the empty string when it has none), the  *)
(* rating, the texts of the review counter and of the location element     *)
(* (None when the card has no such element), the certification items and   *)
(* the href of the heading's link.                                         *)
(***************************************************************************)
\* re.search(r'\((\d+)\)', s): the group of the leftmost match, or None
RECURSIVE SearchParenNumber(_)
SearchParenNumber(s) ==
    IF s = <<>> THEN None
    ELSE LET digits == DigitRun(Tail(s))
         IN  IF Head(s) = "(" /\ digits # <<>> /\ Len(s) >= Len(digits) + 2
                /\ s[Len(digits) + 2] = ")"
             THEN Some(digits)
             ELSE SearchParenNumber(Tail(s))

\* _extract_review_count
ExtractReviewCount(count_elem) ==
    IF ~IsNone(count_elem) /\ ~IsNone(SearchParenNumber(StrStrip(Val(count_elem))))
    THEN IntOf(Val(SearchParenNumber(StrStrip(Val(count_elem)))))
    ELSE 0

\* _extract_contractor_id: the digits at the end of the last path segment,
\* after a hyphen
ExtractContractorId(url) ==
    IF ~TruthyStr(url) THEN None
    ELSE LET path == Val(url)
             start == CHOOSE i \in 1..(Len(path) + 1) :
                         /\ \A j \in i..Len(path) : path[j] \in DigitChars
                         /\ i > 1 => path[i - 1] \notin DigitChars
         IN  IF 1 < start /\ start <= Len(path) /\ path[start - 1] = "-"
             THEN Some(SubSeq(path, start, Len(path)))
             ELSE None

\* _parse_listing_element: the dict of the card, None for a card without a
\* name
ParseListingElement(card) ==
    LET ContractorData(city_state, profile_url) ==
            [contractor_name |-> Some(card.name),
             rating |-> card.rating,
             review_count |-> Some(ExtractReviewCount(card.count_elem)),
             city |-> IF ~IsNone(city_state) THEN Some(Val(city_state).city) ELSE None,
             state |-> IF ~IsNone(city_state) THEN Some(Val(city_state).state) ELSE None,
             certifications |-> SelectSeq(card.certifications, LAMBDA c : c # <<>>),
             profile_url |-> profile_url,
             external_contractor_id |->
                 IF TruthyStr(profile_url) THEN ExtractContractorId(profile_url) ELSE None]
    IN  IF card.name # <<>>
        THEN Some(ContractorData(ExtractCityState(card.city_elem),
                                 IF TruthyStr(card.href) THEN card.href ELSE None))
        ELSE None

\* a complete card
CardFull ==
    [name |-> <<"A", "c", " ", "R">>,
     rating |-> Some(4),
     count_elem |-> Some(<<"(", "7", ")">>),
     city_elem |-> Some(<<"E", "l", "m", ",", " ", "n", "y", " ", "-", " ", "3", ".", "2", " ", "m", "i">>),
     certifications |-> << <<"G","A","F"," ","M","a","s","t","e","r"," ","E","l","i","t","e">> >>,
     href |-> Some(<<"u", "-", "1">>)]

\* the cards of the listing pages: the complete one; the same contractor
\* without a location element, with a location without a comma, and without
\* rating and review counter; another contractor; a card without a name
Cards ==
    { CardFull,
      [CardFull EXCEPT !.city_elem = None],
      [CardFull EXCEPT !.city_elem = Some(<<"E", "l", "m", "h", "u", "r", "s", "t">>)],
      [CardFull EXCEPT !.count_elem = None, !.rating = None],
      [name |-> <<"B", "x">>, rating |-> Some(0),
       count_elem |-> Some(<<"(", "1", "2", ")">>),
       city_elem |-> Some(<<"R", "y", "e", ",", "N", "J">>),
       certifications |-> <<>>, href |-> Some(<<"p", "/", "b", "x", "-", "2">>)],
      [CardFull EXCEPT !.name = <<>>] }

\* every raw dict a save_contractor call of the model is given
RawListings ==
    {[s.listing EXCEPT !.external_contractor_id = e] :
        s \in Scrapes \cup MergeScrapes, e \in ExternalIds}
    \cup {Val(ParseListingElement(c)) : c \in {k \in Cards : k.name # <<>>}}
RawProfiles ==
    {s.profile : s \in Scrapes \cup MergeScrapes}
    \cup {ExtractProfile(p, y) : p \in ProfilePages, y \in CurrentYears}

\* self.etl.process_listing_data and self.etl.process_profile_data, tabulated
\* over the raw dicts (each dict is normalized once)
ProcessedListing == [l \in RawListings |-> ProcessListingData(l)]
ProcessedProfile ==
    [p \in RawProfiles, y \in CurrentYears |-> ProcessProfileData(p, y)]

LookupExisting_Always(db, external_id) == QueryByExternalId(db, external_id)

\* `contractor = None; if external_id: contractor = query...first()`: the id
\* of the stored contractor, 0 for None
LookupExisting(db, external_id) ==
    IF TruthyStr(external_id) THEN QueryByExternalId(db, external_id) ELSE 0

\* save_contractor(listing_data, profile_data, update_existing) at time t in
\* year year_now, with the session's fault (if any) at `fault`
SaveContractor(db, listing_data, profile_data, update_existing, fault, t, year_now) ==
    LET Store(pl, pp) ==
            LET data_confidence == CalculateDataConfidence(pl, pp)
                external_id == pl.external_contractor_id
                found == LookupExisting(db, external_id)
                is_update == found # 0 /\ update_existing
                cid == IF is_update THEN found ELSE Len(db.contractors) + 1
                row == IF is_update
                       THEN UpdateContractor(db.contractors[found], pl, pp, data_confidence)
                       ELSE CreateContractor(pl, pp, data_confidence)
            IN  SaveFromFlush(db, cid, row, is_update, pl, pp, fault, t)
        Processed(processed_listing) ==
            IF processed_listing.raised THEN Failure(db, db)
            ELSE Store(processed_listing.value, ProcessedProfile[profile_data, year_now])
    IN  Processed(ProcessedListing[listing_data])

\* bounds of the model
MaxSaves == 2
MaxClock == 2
MaxMergeSaves == 3
MaxRetries == 3
MaxNavCalls == 2
MaxListings == 2
MaxPhoneDigits == 12
MaxFreshSaves == 2
MaxDays == 100
MaxEmployees == 210
MaxTextLen == 4
MaxCardSaves == 3

(***************************************************************************)
(* _safe_navigate of ListingScraper and ProfileScraper                     *)
(***************************************************************************)
Scrapers == {"listing", "profile"}

\* What _setup_driver can do: create and configure the session ("ok"), fail
\* in webdriver.Chrome (self.driver stays None), or fail while configuring
\* the created session (self.driver is set, None is returned).
SetupOutcomes == {"ok", "chrome_fails", "config_fails"}

\* self.driver after `if not self.driver: self._setup_driver()`
DriverAfterSetup(has_driver, setup) == has_driver \/ setup # "chrome_fails"

\* What one attempt can meet: driver.get or the ready-state wait raises, the
\* title holds "Access Denied" or "Forbidden", the scroll script raises, or
\* the page loads and scrolls.
AttemptOutcomes == {"load_error", "denied", "forbidden", "scroll_error", "ok"}

SoftBlocked_DeniedOnly(outcome) == outcome = "denied"

\* the soft-block test on self.driver.title
SoftBlocked(outcome) == outcome \in {"denied", "forbidden"}

\* the exception handler of the attempt: `except Exception` swallows what
\* the attempt raised, sleeps and lets the loop go on
AttemptRaised_Propagate(outcome) == "raise"
AttemptRaised(outcome) == "continue"

\* One iteration of the retry loop: whether the page finished loading and
\* the scroll scripts ran to the end, which sleep followed, and how the
\* iteration ends ("return_true", "continue", or "raise" when an exception
\* leaves _safe_navigate).
NavAttempt(outcome) ==
    CASE outcome = "load_error" ->
            [outcome |-> outcome, scrolled |-> FALSE, sleep |-> "error",
             next |-> AttemptRaised(outcome)]
      [] SoftBlocked(outcome) ->
            [outcome |-> outcome, scrolled |-> FALSE, sleep |-> "backoff",
             next |-> "continue"]
      [] outcome = "scroll_error" ->
            [outcome |-> outcome, scrolled |-> FALSE, sleep |-> "error",
             next |-> AttemptRaised(outcome)]
      [] OTHER ->
            [outcome |-> outcome, scrolled |-> TRUE, sleep |-> "settle",
             next |-> "return_true"]

\* _safe_navigate(url, max_retries) as a whole, given what each attempt meets:
\* the result and the number of page loads
RECURSIVE Navigate(_, _, _)
Navigate(max_retries, attempt, outcomes) ==
    IF attempt >= max_retries \/ attempt >= Len(outcomes)
    THEN [result |-> "false", loads |-> attempt]
    ELSE LET a == NavAttempt(outcomes[attempt + 1])
         IN  CASE a.next = "return_true" -> [result |-> "true", loads |-> attempt + 1]
               [] a.next = "raise" -> [result |-> "raised", loads |-> attempt + 1]
               [] OTHER -> Navigate(max_retries, attempt + 1, outcomes)

(***************************************************************************)
(* scrape_listings, scrape_profile, cleanup and the inputs of a run        *)
(***************************************************************************)
\* the default of max_retries, used by scrape_listings and scrape_profile
DefaultMaxRetries == 3

\* what the three attempts of a navigation of a run meet
NavScripts ==
    { <<"ok", "ok", "ok">>,
      <<"denied", "load_error", "ok">>,
      <<"forbidden", "scroll_error", "denied">> }

\* _safe_navigate(url) as scrape_listings and scrape_profile call it
SafeNavigate(has_driver, setup, outcomes) ==
    LET has == DriverAfterSetup(has_driver, setup)
    IN  [driver |-> has,
         ok |-> has /\ Navigate(DefaultMaxRetries, 0, outcomes).result = "true"]

\* scrape_listings(limit): the cards of the page when the navigation
\* succeeded, no listing otherwise
ScrapeListings(has_driver, setup, outcomes, cards) ==
    LET n == SafeNavigate(has_driver, setup, outcomes)
    IN  [driver |-> n.driver, listings |-> IF n.ok THEN cards ELSE <<>>]

\* scrape_profile(profile_url) in year year_now: the dict of defaults when
\* the navigation failed, else the dict as the extraction left it
ScrapeProfile(has_driver, setup, outcomes, page, year_now) ==
    LET n == SafeNavigate(has_driver, setup, outcomes)
    IN  [driver |-> n.driver,
         ok |-> n.ok /\ page.fail_at = NoFailure,
         profile_data |-> IF n.ok THEN ExtractProfile(page, year_now) ELSE ProfileNull]

\* cleanup(): quit the session if there is one, and forget it
Cleanup(has_driver) == FALSE

\* the cards a listing page can hold: two complete ones, one without a
\* location, one without a profile link
RunListings ==
    { [Listing1 EXCEPT !.external_contractor_id = Some(<<"1">>)],
      [Listing2 EXCEPT !.external_contractor_id = Some(<<"2">>)],
      [[Listing2 EXCEPT !.state = None] EXCEPT !.external_contractor_id = Some(<<"2">>)],
      ListingSparse }

RECURSIVE SeqsUpTo(_, _)
SeqsUpTo(S, n) ==
    IF n = 0 THEN {<<>>}
    ELSE LET shorter == SeqsUpTo(S, n - 1)
         IN  shorter \cup {Append(q, x) : q \in shorter, x \in S}

\* the faults a save of a run can meet
RunFaults == {"none", "commit"}

\* `if contractor: saved_count += 1`
CountSaved_Always(count, contractor_ok) == count + 1
CountSaved(count, contractor_ok) == IF contractor_ok THEN count + 1 ELSE count

(***************************************************************************)
(* calculate_data_confidence, called on processed dicts                    *)
(***************************************************************************)
\* the processed listings of the scoring specification: every tracked field
\* missing or present, the rating also 0
ScoreListings ==
    { [contractor_name |-> n, rating |-> r, review_count |-> Some(0), city |-> c,
       state |-> st, certifications |-> <<>>, profile_url |-> u,
       external_contractor_id |-> None] :
        n \in {None, Some(<<"A", "c">>)},
        r \in {None, Some(0), Some(4)},
        c \in {None, Some(<<"E", "l", "m">>)},
        st \in {Some(<<>>), Some(<<"N", "Y">>)},
        u \in {Some(<<>>), Some(<<"u", "-", "1">>)} }

\* the processed profiles of the scoring specification: every tracked field
\* missing or present, years_in_business also 0
ScoreProfiles ==
    { [years_in_business |-> y, business_start_year |-> None, employee_range |-> e,
       state_license_number |-> None, address |-> a, phone |-> ph, about_text |-> ab,
       review_snippets |-> rs] :
        y \in {None, Some(0), Some(10)},
        e \in {None, Some(<<"1", "-", "1", "0">>)},
        a \in {None, Some(<<"1", " ", "S", "t">>)},
        ph \in {None, Some(<<"2", "1", "2", "5", "5", "5", "0", "1", "0", "1">>)},
        ab \in {None, Some(<<"o", "l", "d">>)},
        rs \in {<<>>, <<Some(<<"o", "k">>)>>} }

\* the tracked fields, and the dict each belongs to
ListingTracked == {"contractor_name", "city", "state", "rating", "profile_url"}
ProfileTracked ==
    {"address", "phone", "years_in_business", "employee_range", "about_text", "review_snippets"}

\* the present values a tracked field can be given
PresentValues(field) ==
    CASE field = "rating" -> {Some(0), Some(5)}
      [] field = "years_in_business" -> {Some(0), Some(3)}
      [] field = "review_snippets" -> {<<Some(<<"f", "a", "s", "t">>)>>}
      [] OTHER -> {Some(<<"x">>)}

(***************************************************************************)
(* The phone strings _clean_phone is called with                           *)
(***************************************************************************)
PhonePattern == <<"2", "1", "2", "5", "5", "5", "0", "1", "0", "1", "9", "3", "4">>

\* a run of n digits
PhoneBody(n) == [i \in 1..n |-> PhonePattern[((i - 1) % Len(PhonePattern)) + 1]]

\* what precedes the digits: nothing, a country code, a bare "+", a bracket
PhonePrefixes ==
    { <<>>, <<"+", "1">>, <<"1">>, <<"+">>, <<"+", "2">>, <<"1", "+">>, <<"(">>,
      <<"+", "1", " ">>, <<"+", "1", "1">> }

\* the digits as written: bare, grouped with "-" and " ", with a "+" after
\* the third digit, followed by letters
PhoneStyles == {"bare", "grouped", "plus_inside", "extension"}

Written(body, style) ==
    LET head == SubSeq(body, 1, IF Len(body) < 3 THEN Len(body) ELSE 3)
        tail == SubSeq(body, Len(head) + 1, Len(body))
    IN  CASE style = "grouped" -> head \o <<")", " ">> \o
                                   SubSeq(tail, 1, IF Len(tail) < 3 THEN Len(tail) ELSE 3)
                                   \o (IF Len(tail) > 3 THEN <<"-">> \o SubSeq(tail, 4, Len(tail))
                                       ELSE <<>>)
          [] style = "plus_inside" -> head \o <<"+">> \o tail
          [] style = "extension" -> body \o <<" ", "x">>
          [] OTHER -> body

PhoneInputs ==
    {None}
    \cup { Some(pre \o Written(PhoneBody(n), st)) :
              pre \in PhonePrefixes, n \in 0..MaxPhoneDigits, st \in PhoneStyles }

(***************************************************************************)
(* The years a profile page can state after "since"                        *)
(***************************************************************************)
\* the 4-digit numbers the pattern (\d{4}) can match, around the bounds of
\* the range checks
ParsedYears ==
    {None} \cup {Some(y) : y \in {0, 1000, 1500, 1799, 9999} \cup (1800..1830) \cup (2000..2030)}

(***************************************************************************)
(* get_freshness_report.  Time is counted in days.                         *)
(***************************************************************************)
FreshCount_OlderThan(db, t, days) ==
    Cardinality({i \in 1..Len(db.contractors) : db.contractors[i].last_scraped_at < t - days})

\* query(Contractor).filter(last_scraped_at > now - timedelta(days)).count()
FreshCount(db, t, days) ==
    Cardinality({i \in 1..Len(db.contractors) : db.contractors[i].last_scraped_at > t - days})

\* get_stale_contractors(days_old) at time t: the rows scraped before the
\* cutoff
GetStaleContractors(db, t, days_old) ==
    SelectSeq(db.contractors, LAMBDA c : c.last_scraped_at < t - days_old)

\* a / b * 100 as an exact fraction
Percent(a, b) == [num |-> a * 100, den |-> b]

\* get_freshness_report() at time t
FreshnessReport(db, t) ==
    LET total == Len(db.contractors)
        fresh_7d == FreshCount(db, t, 7)
        fresh_30d == FreshCount(db, t, 30)
        fresh_90d == FreshCount(db, t, 90)
    IN  IF total = 0
        THEN [total |-> 0, fresh_7d |-> 0, fresh_30d |-> 0, fresh_90d |-> 0,
              stale_30d |-> 0, stale_90d |-> 0, freshness_rate_30d |-> [num |-> 0, den |-> 1]]
        ELSE [total |-> total, fresh_7d |-> fresh_7d, fresh_30d |-> fresh_30d,
              fresh_90d |-> fresh_90d,
              stale_30d |-> total - fresh_30d, stale_90d |-> total - fresh_90d,
              freshness_rate_30d |-> IF total > 0 THEN Percent(fresh_30d, total)
                                     ELSE [num |-> 0, den |-> 1]]

\* the scrapes of the freshness specification, and the days between two of
\* its steps
FreshScrapes ==
    { [listing |-> [Listing1 EXCEPT !.external_contractor_id = Some(<<"1">>)], profile |-> Profile1],
      [listing |-> [Listing2 EXCEPT !.external_contractor_id = Some(<<"2">>)], profile |-> Profile2],
      [listing |-> Listing1, profile |-> Profile1] }
DayJumps == {7, 23, 60}

(***************************************************************************)
(* ProfileScraper._extract_phone                                           *)
(***************************************************************************)
\* s.replace(old, ""): every occurrence of old is removed, left to right
RECURSIVE StrRemove(_, _)
StrRemove(s, old) ==
    IF s = <<>> THEN <<>>
    ELSE IF StartsWith(s, old) THEN StrRemove(SubSeq(s, Len(old) + 1, Len(s)), old)
         ELSE <<Head(s)>> \o StrRemove(Tail(s), old)

\* _extract_phone for the href of the tel: link of the masthead (None: the
\* page has no such link)
ExtractPhone(href) ==
    IF IsNone(href) \/ ~StartsWith(Val(href), <<"t", "e", "l", ":">>) THEN None
    ELSE LET phone == StrStrip(StrRemove(Val(href), <<"t", "e", "l", ":">>))
         IN  IF StartsWith(phone, <<"+", "1">>) THEN Some(SubSeq(phone, 3, Len(phone)))
             ELSE IF StartsWith(phone, <<"1">>) /\ Len(phone) = 11
                  THEN Some(Tail(phone))
                  ELSE Some(phone)

(***************************************************************************)
(* State                                                                   *)
(***************************************************************************)
VARIABLES
    contractors,      \* table contractors
    certifications,   \* table certifications
    contractor_text,  \* table contractor_text
    now,              \* the database clock (func.now())
    current_year,     \* datetime.now().year
    calls,            \* number of save_contractor calls made
    last,             \* the last save_contractor call: its dicts and its result
    driver,           \* self.driver of each scraper: TRUE when it holds a session
    nav_pc,           \* _safe_navigate: "idle", "loop" or "done"
    nav_scraper,      \* the scraper whose _safe_navigate runs
    nav_max,          \* max_retries of the call
    nav_attempt,      \* the loop variable: attempts started so far
    nav_loads,        \* driver.get calls of the call
    nav_result,       \* "none", "true", "false" or "raised"
    nav_log,          \* what each attempt of the call did
    nav_calls,        \* number of _safe_navigate calls made
    run_pc,           \* main: "start", "listed", "loop", "fetched" or "done"
    run_listings,     \* listings, as scrape_listings returned them
    run_idx,          \* idx of the loop over the listings
    run_profile,      \* profile_data of the listing being processed
    saved_count,      \* saved_count
    run_events,       \* what main did, in the order it did it
    run_exit,         \* how main ended: "none", "no_listings", "normal", "error"
    call              \* the last call of a function of the pipeline: arguments and result

store_vars == <<contractors, certifications, contractor_text, now, current_year, calls, last>>
nav_vars == <<nav_pc, nav_scraper, nav_max, nav_attempt, nav_loads, nav_result, nav_log, nav_calls>>
run_vars == <<run_pc, run_listings, run_idx, run_profile, saved_count, run_events, run_exit>>
vars == <<store_vars, driver, nav_vars, run_vars, call>>

Db == [contractors |-> contractors,
       certifications |-> certifications,
       contractor_text |-> contractor_text]

NoCall ==
    [listing |-> Listing1, profile |-> ProfileNull, ok |-> FALSE, id |-> 0]

InitStore ==
    /\ contractors = <<>>
    /\ certifications = <<>>
    /\ contractor_text = <<>>
    /\ now = 1
    /\ calls = 0
    /\ last = NoCall

\* ContractorStorage.save_contractor(listing_data, profile_data, update_existing)
Save(listing_data, profile_data, update_existing, fault) ==
    LET r == SaveContractor(Db, listing_data, profile_data, update_existing,
                            fault, now, current_year)
    IN  /\ contractors' = r.db.contractors
        /\ certifications' = r.db.certifications
        /\ contractor_text' = r.db.contractor_text
        /\ calls' = calls + 1
        /\ last' = [listing |-> listing_data, profile |-> profile_data,
                    ok |-> r.ok, id |-> r.id]
        /\ UNCHANGED <<now, current_year>>

\* a save_contractor call of any caller
SaveAny ==
    /\ calls < MaxSaves
    /\ \E s \in Scrapes, e \in ExternalIds, u \in BOOLEAN, f \in Faults :
          Save([s.listing EXCEPT !.external_contractor_id = e], s.profile, u, f)
    /\ UNCHANGED <<driver, nav_vars, run_vars, call>>

\* time passes
Tick ==
    /\ now < MaxClock
    /\ now' = now + 1
    /\ UNCHANGED <<contractors, certifications, contractor_text, current_year, calls, last>>
    /\ UNCHANGED <<driver, nav_vars, run_vars, call>>

\* ListingScraper.__init__ and ProfileScraper.__init__: no session yet
InitScrapers ==
    /\ driver = [s \in Scrapers |-> FALSE]
    /\ nav_pc = "idle"
    /\ nav_scraper = "listing"
    /\ nav_max = 0
    /\ nav_attempt = 0
    /\ nav_loads = 0
    /\ nav_result = "none"
    /\ nav_log = <<>>
    /\ nav_calls = 0

\* main before its first step
InitRun ==
    /\ run_pc = "start"
    /\ run_listings = <<>>
    /\ run_idx = 0
    /\ run_profile = ProfileNull
    /\ saved_count = 0
    /\ run_events = <<>>
    /\ run_exit = "none"

Init ==
    /\ InitStore
    /\ current_year \in CurrentYears
    /\ InitScrapers
    /\ InitRun
    /\ call = [op |-> "none"]

Next == SaveAny \/ Tick

Spec == Init /\ [][Next]_vars

\* a scrape and re-scrapes of one contractor, saved with update_existing
SaveMerge ==
    /\ calls < MaxMergeSaves
    /\ \E s \in MergeScrapes :
          Save([s.listing EXCEPT !.external_contractor_id = Some(<<"1">>)],
               s.profile, TRUE, "none")
    /\ UNCHANGED <<driver, nav_vars, run_vars, call>>

NextMerge == SaveMerge

SpecMerge == Init /\ [][NextMerge]_vars

\* _safe_navigate(url, max_retries) is called: the session is set up when
\* the scraper has none; without a session the call returns False at once
NavCall ==
    /\ nav_pc \in {"idle", "done"}
    /\ nav_calls < MaxNavCalls
    /\ \E s \in Scrapers, m \in 0..MaxRetries, setup \in SetupOutcomes :
          LET has == DriverAfterSetup(driver[s], setup)
          IN  /\ driver' = [driver EXCEPT ![s] = has]
              /\ nav_scraper' = s
              /\ nav_max' = m
              /\ nav_pc' = IF has THEN "loop" ELSE "done"
              /\ nav_result' = IF has THEN "none" ELSE "false"
    /\ nav_attempt' = 0
    /\ nav_loads' = 0
    /\ nav_log' = <<>>
    /\ nav_calls' = nav_calls + 1
    /\ UNCHANGED <<call, store_vars, run_vars>>

\* one iteration of `for attempt in range(max_retries)`
NavLoop ==
    /\ nav_pc = "loop"
    /\ nav_attempt < nav_max
    /\ \E o \in AttemptOutcomes :
          LET a == NavAttempt(o)
          IN  /\ nav_log' = Append(nav_log, a)
              /\ nav_pc' = IF a.next = "continue" THEN "loop" ELSE "done"
              /\ nav_result' = CASE a.next = "return_true" -> "true"
                                 [] a.next = "raise" -> "raised"
                                 [] OTHER -> nav_result
    /\ nav_attempt' = nav_attempt + 1
    /\ nav_loads' = nav_loads + 1
    /\ UNCHANGED <<call, store_vars, run_vars, driver, nav_scraper, nav_max, nav_calls>>

\* the loop is exhausted: return False
NavExhausted ==
    /\ nav_pc = "loop"
    /\ nav_attempt >= nav_max
    /\ nav_pc' = "done"
    /\ nav_result' = "false"
    /\ UNCHANGED <<call, store_vars, run_vars, driver, nav_scraper, nav_max, nav_attempt, nav_loads,
                   nav_log, nav_calls>>

NextNav == NavCall \/ NavLoop \/ NavExhausted

\* a call that has started runs on: the loop only sleeps between attempts
SpecNav == Init /\ [][NextNav]_vars /\ WF_vars(NavLoop) /\ WF_vars(NavExhausted)

\* listings = listing_scraper.scrape_listings(limit=limit)
RunScrapeListings ==
    /\ run_pc = "start"
    /\ \E setup \in SetupOutcomes, o \in NavScripts, cards \in SeqsUpTo(RunListings, MaxListings) :
          LET r == ScrapeListings(driver["listing"], setup, o, cards)
          IN  /\ driver' = [driver EXCEPT !["listing"] = r.driver]
              /\ run_listings' = r.listings
    /\ run_pc' = "listed"
    /\ UNCHANGED <<call, store_vars, nav_vars, run_idx, run_profile, saved_count, run_events, run_exit>>

\* `if not listings: return`, else saved_count = 0 and the loop starts
RunCheckListings ==
    /\ run_pc = "listed"
    /\ IF run_listings = <<>>
       THEN /\ run_pc' = "done"
            /\ run_exit' = "no_listings"
            /\ UNCHANGED run_idx
       ELSE /\ run_pc' = "loop"
            /\ run_idx' = 1
            /\ UNCHANGED run_exit
    /\ saved_count' = 0
    /\ UNCHANGED <<call, store_vars, driver, nav_vars, run_listings, run_profile, run_events>>

\* a listing without profile_url: `continue`
RunSkip ==
    /\ run_pc = "loop"
    /\ run_idx <= Len(run_listings)
    /\ ~TruthyStr(run_listings[run_idx].profile_url)
    /\ run_events' = Append(run_events, [kind |-> "skip", idx |-> run_idx, ok |-> FALSE, id |-> 0,
                                          session |-> driver["profile"]])
    /\ run_idx' = run_idx + 1
    /\ UNCHANGED <<call, store_vars, driver, nav_vars, run_pc, run_listings, run_profile, saved_count,
                   run_exit>>

\* profile_data = profile_scraper.scrape_profile(profile_url)
RunFetchProfile ==
    /\ run_pc = "loop"
    /\ run_idx <= Len(run_listings)
    /\ TruthyStr(run_listings[run_idx].profile_url)
    /\ \E setup \in SetupOutcomes, o \in NavScripts, page \in ProfilePages :
          LET r == ScrapeProfile(driver["profile"], setup, o, page, current_year)
          IN  /\ driver' = [driver EXCEPT !["profile"] = r.driver]
              /\ run_profile' = r.profile_data
              /\ run_events' = Append(run_events,
                                      [kind |-> "fetch", idx |-> run_idx, ok |-> r.ok, id |-> 0,
                                       session |-> r.driver])
    /\ run_pc' = "fetched"
    /\ UNCHANGED <<call, store_vars, nav_vars, run_listings, run_idx, saved_count, run_exit>>

\* contractor = storage.save_contractor(listing, profile_data), and the count
RunSave ==
    /\ run_pc = "fetched"
    /\ \E f \in RunFaults : Save(run_listings[run_idx], run_profile, TRUE, f)
    /\ saved_count' = CountSaved(saved_count, last'.ok)
    /\ run_events' = Append(run_events,
                            [kind |-> "save", idx |-> run_idx, ok |-> last'.ok, id |-> last'.id,
                             session |-> driver["profile"]])
    /\ run_idx' = run_idx + 1
    /\ run_pc' = "loop"
    /\ UNCHANGED <<call, driver, nav_vars, run_listings, run_profile, run_exit>>

\* the loop is over: the inner finally cleans both scrapers up, the summary
\* is logged, the outer finally closes the database session
RunFinish ==
    /\ run_pc = "loop"
    /\ run_idx > Len(run_listings)
    /\ driver' = [s \in Scrapers |-> Cleanup(driver[s])]
    /\ run_pc' = "done"
    /\ run_exit' = "normal"
    /\ UNCHANGED <<call, store_vars, nav_vars, run_listings, run_idx, run_profile, saved_count,
                   run_events>>

\* an exception leaves the loop body (the run is interrupted): the inner
\* finally cleans both scrapers up on the way out
RunAbort ==
    /\ run_pc \in {"loop", "fetched"}
    /\ run_idx <= Len(run_listings)
    /\ driver' = [s \in Scrapers |-> Cleanup(driver[s])]
    /\ run_pc' = "done"
    /\ run_exit' = "error"
    /\ UNCHANGED <<call, store_vars, nav_vars, run_listings, run_idx, run_profile, saved_count,
                   run_events>>

NextRun ==
    \/ RunScrapeListings
    \/ RunCheckListings
    \/ RunSkip
    \/ RunFetchProfile
    \/ RunSave
    \/ RunFinish
    \/ RunAbort

SpecRun == Init /\ [][NextRun]_vars

\* calculate_data_confidence(listing_data, profile_data)
ScoreCall ==
    /\ call.op = "none"
    /\ \E l \in ScoreListings, p \in ScoreProfiles :
          call' = [op |-> "score", listing |-> l, profile |-> p,
                   score |-> ConfidenceScore(l, p),
                   level |-> CalculateDataConfidence(l, p)]
    /\ UNCHANGED <<store_vars, driver, nav_vars, run_vars>>

\* calculate_data_confidence before and after a tracked field of the pair
\* is given a value
ScoreAddField ==
    /\ call.op = "none"
    /\ \E l \in ScoreListings, p \in ScoreProfiles, f \in ListingTracked \cup ProfileTracked :
          \E v \in PresentValues(f) :
             LET l2 == IF f \in ListingTracked THEN [l EXCEPT ![f] = v] ELSE l
                 p2 == IF f \in ProfileTracked THEN [p EXCEPT ![f] = v] ELSE p
             IN  call' = [op |-> "score_add", listing |-> l, profile |-> p, field |-> f,
                          score |-> ConfidenceScore(l, p),
                          level |-> CalculateDataConfidence(l, p),
                          after_score |-> ConfidenceScore(l2, p2),
                          after_level |-> CalculateDataConfidence(l2, p2)]
    /\ UNCHANGED <<store_vars, driver, nav_vars, run_vars>>

NextScore == ScoreCall \/ ScoreAddField

SpecScore == Init /\ [][NextScore]_vars

\* _clean_phone(phone)
PhoneCall ==
    /\ call.op = "none"
    /\ \E ph \in PhoneInputs :
          call' = [op |-> "clean_phone", phone |-> ph, result |-> CleanPhone(ph)]
    /\ UNCHANGED <<store_vars, driver, nav_vars, run_vars>>

\* the phone of a profile: _extract_phone on the href "tel:<value>", then
\* _clean_phone in process_profile_data; and _clean_phone of the value
PhoneExtractCall ==
    /\ call.op = "none"
    /\ \E ph \in PhoneInputs \ {None} :
          LET phone == ExtractPhone(Some(<<"t", "e", "l", ":">> \o Val(ph)))
          IN  call' = [op |-> "extract_phone", value |-> Val(ph), phone |-> phone,
                       result |-> CleanPhone(phone), direct |-> CleanPhone(ph)]
    /\ UNCHANGED <<store_vars, driver, nav_vars, run_vars>>

NextPhone == PhoneCall \/ PhoneExtractCall

SpecPhone == Init /\ [][NextPhone]_vars

\* the year fields of a profile: _extract_business_start_year and
\* _extract_years_in_business in scrape_profile, then process_profile_data
YearsCall ==
    /\ call.op = "none"
    /\ \E parsed \in ParsedYears :
          LET start_year == ExtractBusinessStartYear(parsed)
              years == ExtractYearsInBusiness(start_year, current_year)
              processed == ProcessProfileData(
                               [ProfileNull EXCEPT !.business_start_year = start_year,
                                                   !.years_in_business = years],
                               current_year)
          IN  call' = [op |-> "years", parsed |-> parsed,
                       start_year |-> start_year, years |-> years,
                       norm_start_year |-> processed.business_start_year,
                       norm_years |-> processed.years_in_business]
    /\ UNCHANGED <<store_vars, driver, nav_vars, run_vars>>

NextYears == YearsCall

SpecYears == Init /\ [][NextYears]_vars

\* a save_contractor call of a scrape run
FreshSave ==
    /\ call.op = "none"
    /\ calls < MaxFreshSaves
    /\ \E s \in FreshScrapes : Save(s.listing, s.profile, TRUE, "none")
    /\ UNCHANGED <<driver, nav_vars, run_vars, call>>

\* days pass
FreshAdvance ==
    /\ call.op = "none"
    /\ \E d \in DayJumps : now + d <= MaxDays /\ now' = now + d
    /\ UNCHANGED <<contractors, certifications, contractor_text, current_year, calls, last>>
    /\ UNCHANGED <<driver, nav_vars, run_vars, call>>

\* get_freshness_report()
FreshReport ==
    /\ call.op = "none"
    /\ call' = [op |-> "freshness", report |-> FreshnessReport(Db, now)]
    /\ UNCHANGED <<store_vars, driver, nav_vars, run_vars>>

\* the freshness part of check_db.main: the report, and the length of
\* get_stale_contractors(days_old=30)
FreshCheckDb ==
    /\ call.op = "none"
    /\ call' = [op |-> "check_db", report |-> FreshnessReport(Db, now),
                stale_30d |-> Len(GetStaleContractors(Db, now, 30))]
    /\ UNCHANGED <<store_vars, driver, nav_vars, run_vars>>

NextFresh == FreshSave \/ FreshAdvance \/ FreshReport \/ FreshCheckDb

SpecFresh == Init /\ [][NextFresh]_vars

\* _extract_employee_range(soup)
EmployeeCall ==
    /\ call.op = "none"
    /\ \E form \in {"bare", "more than", "over", "less than", "under", "range", "words"},
          n \in 0..MaxEmployees :
          call' = [op |-> "employee_range", form |-> form, n |-> n,
                   text |-> EmployeeText(form, n),
                   result |-> ExtractEmployeeRange(Some(EmployeeText(form, n)))]
    /\ UNCHANGED <<store_vars, driver, nav_vars, run_vars>>

\* _extract_city_state(element) for a text "<city>, <rest> - <d> mi"
CityStateCall ==
    /\ call.op = "none"
    /\ \E city \in { <<"E", "l", "m">>, <<"E", "l", "m", " ">>, <<"S", "t", "-", "L", "o">>,
                     <<"N", "e", "w", " ", "H", "y", "d", "e">>, <<>> },
          rest \in { <<"N", "Y">>, <<"n", "y">>, <<"N", "e", "w", " ", "Y", "o", "r", "k">>,
                     <<"N">>, <<>>, <<"N", "J", ",", " ", "U", "S", "A">>,
                     <<"N", ",", " ", "Y">>, <<" ", "p", "a">> },
          d \in { <<"3", ".", "2">>, <<"1", "7", ".", "0">>, <<"1", "7">>,
                  <<"1", "2", "0", ".", "5">> } :
          LET text == city \o <<",", " ">> \o rest \o <<" ", "-", " ">> \o d \o <<" ", "m", "i">>
          IN  call' = [op |-> "city_state", shaped |-> TRUE, text |-> text,
                       city |-> city, rest |-> rest, distance |-> d,
                       result |-> ExtractCityState(Some(text))]
    /\ UNCHANGED <<store_vars, driver, nav_vars, run_vars>>

\* _extract_city_state(element) for a text without a comma, or without the
\* element
CityStateCallPlain ==
    /\ call.op = "none"
    /\ \E elem \in { None, Some(<<"E", "l", "m", "h", "u", "r", "s", "t">>), Some(<<>>),
                     Some(<<"E", "l", "m", " ", "N", "Y">>),
                     Some(<<"E", "l", "m", " ", "-", " ", "3", ".", "2", " ", "m", "i">>),
                     Some(<<"-", " ", "3", ".", "2", " ", "m", "i">>) } :
          call' = [op |-> "city_state", shaped |-> FALSE, text |-> elem,
                   result |-> ExtractCityState(elem)]
    /\ UNCHANGED <<store_vars, driver, nav_vars, run_vars>>

\* _clean_text(text) for None and for the texts of up to MaxTextLen letters,
\* whitespace and control characters (\x0b, "^K", is both)
TextCall ==
    /\ call.op = "none"
    /\ \E text \in {None} \cup {Some(t) : t \in UNION {[1..n -> {"a", "b", " ", "\n", "^A", "^K"}] :
                                                        n \in 0..MaxTextLen}} :
          call' = [op |-> "clean_text", text |-> text, result |-> CleanText(text)]
    /\ UNCHANGED <<store_vars, driver, nav_vars, run_vars>>

NextFields == EmployeeCall \/ CityStateCall \/ CityStateCallPlain \/ TextCall

SpecFields == Init /\ [][NextFields]_vars

\* a listing of scrape_listings and its save_contractor call: the card is
\* parsed, dropped when it has no name, and saved with the dict of a complete
\* profile or with the all-null one
CardSave ==
    /\ calls < MaxCardSaves
    /\ \E card \in Cards, p \in {Profile1, ProfileNull} :
          /\ ~IsNone(ParseListingElement(card))
          /\ call' = [op |-> "parse_listing", card |-> card]
          /\ Save(Val(ParseListingElement(card)), p, TRUE, "none")
    /\ UNCHANGED <<driver, nav_vars, run_vars>>

NextCards == CardSave \/ Tick

SpecCards == Init /\ [][NextCards]_vars

(***************************************************************************)
(* Properties of the storage layer                                         *)
(***************************************************************************)
\* a step of the model that is a save_contractor call
IsSaveStep == calls' = calls + 1

\* the certification rows of contractor cid, in table order
CertRowsOf(table, cid) == SelectSeq(table, LAMBDA r : r.contractor_id = cid)

\* the non-empty normalized certification names of a raw listing
NormalizedCertNames(listing) ==
    SelectSeq(ProcessListingData(listing).value.certifications, LAMBDA c : c # <<>>)

\* the external id of the last call's listing was stored before the call
\* (in the table `before`)
StoredIn(before, external_id) ==
    /\ ~IsNone(external_id)
    /\ \E i \in 1..Len(before) : before[i].external_contractor_id = external_id

\* C1: after every successful save of an entity, the entity's certification
\* rows are exactly the normalized certifications of that save's listing, also
\* when that list is empty (rows of earlier saves are gone).
C1_CertificationsReplaced ==
    last.ok =>
        LET rows == CertRowsOf(certifications, last.id)
        IN  [i \in 1..Len(rows) |-> rows[i].name] = NormalizedCertNames(last.listing)

\* C2: a successful save of an entity that is already stored, made when the
\* clock has moved past the stored last_scraped_at, leaves last_scraped_at
\* later than it was, whatever data the scrape carries.
C2_LastScrapedAdvances ==
    [][(/\ IsSaveStep
        /\ last'.ok
        /\ last'.id <= Len(contractors)
        /\ now > contractors[last'.id].last_scraped_at)
       => contractors'[last'.id].last_scraped_at > contractors[last'.id].last_scraped_at]_vars

C4_ExternalIdUnique ==
    \A i, j \in 1..Len(contractors) :
        (/\ i # j
         /\ ~IsNone(contractors[i].external_contractor_id))
        => contractors[i].external_contractor_id # contractors[j].external_contractor_id

\* C4 witness: a complete scrape whose external id is stored was refused (the
\* call with update_existing false) and two entities are stored.
C4_Witness ==
    /\ ~last.ok
    /\ last.listing = [Listing1 EXCEPT !.external_contractor_id = Some(<<"1">>)]
    /\ last.profile = Profile1
    /\ StoredIn(contractors, Some(<<"1">>))
    /\ calls = MaxSaves

\* C5: a successful save whose external id is already stored returns the
\* stored entity (same id, same external id) and adds no entity; a successful
\* save whose external id is not stored adds exactly one entity.
C5_UpdateInPlace ==
    [][(IsSaveStep /\ last'.ok)
       => LET external_id == last'.listing.external_contractor_id
          IN  IF StoredIn(contractors, external_id)
              THEN /\ last'.id <= Len(contractors)
                   /\ contractors[last'.id].external_contractor_id = external_id
                   /\ contractors'[last'.id].external_contractor_id = external_id
                   /\ contractors'[last'.id].id = contractors[last'.id].id
                   /\ Len(contractors') = Len(contractors)
              ELSE /\ Len(contractors') = Len(contractors) + 1
                   /\ last'.id = Len(contractors')]_vars

\* C5 witness: the second of two successful saves updated the stored entity.
C5_Witness ==
    /\ calls = MaxSaves
    /\ last.ok
    /\ Len(contractors) = 1
    /\ contractors[1].external_contractor_id = Some(<<"2">>)
    /\ last.listing.contractor_name # contractors[1].contractor_name

\* C7: every stored entity has exactly one text blob, and every text blob
\* belongs to a stored entity.
C7_OneTextBlob ==
    /\ \A i \in 1..Len(contractors) :
          Cardinality({k \in 1..Len(contractor_text) :
                          contractor_text[k].contractor_id = i}) = 1
    /\ \A k \in 1..Len(contractor_text) :
          contractor_text[k].contractor_id \in 1..Len(contractors)

\* C7 witness: an entity created by a scrape without about text and review
\* snippets, saved a second time.
C7_Witness ==
    /\ calls = MaxSaves
    /\ last.ok
    /\ Len(contractors) = 1
    /\ Len(contractor_text) = 1
    /\ IsNone(contractor_text[1].about_text)
    /\ IsNone(contractor_text[1].review_snippets)

\* the text blob of contractor cid
TextRowOf(table, cid) == table[CHOOSE k \in 1..Len(table) : table[k].contractor_id = cid]

\* a normalized value that is null or an empty string
BlankStr(o) == IsNone(o) \/ Val(o) = <<>>

\* C6: on a successful update of a stored entity every merged field keeps its
\* stored value when the new normalized value is null, an empty string or an
\* empty list, and takes the new value otherwise.
C6_MergeNonEmpty ==
    [][(IsSaveStep /\ last'.ok /\ last'.id <= Len(contractors))
       => LET pl == ProcessedListing[last'.listing].value
              pp == ProcessedProfile[last'.profile, current_year]
              old == contractors[last'.id]
              new == contractors'[last'.id]
              old_text == TextRowOf(contractor_text, last'.id)
              new_text == TextRowOf(contractor_text', last'.id)
          IN  /\ \A f \in {"contractor_name", "city", "state", "profile_url"} :
                    new[f] = IF BlankStr(pl[f]) THEN old[f] ELSE pl[f]
              /\ \A f \in {"rating", "review_count"} :
                    new[f] = IF IsNone(pl[f]) THEN old[f] ELSE pl[f]
              /\ \A f \in {"years_in_business", "business_start_year"} :
                    new[f] = IF IsNone(pp[f]) THEN old[f] ELSE pp[f]
              /\ \A f \in {"employee_range", "state_license_number", "address", "phone"} :
                    new[f] = IF BlankStr(pp[f]) THEN old[f] ELSE pp[f]
              /\ new_text.about_text =
                    IF BlankStr(pp.about_text) THEN old_text.about_text ELSE pp.about_text
              /\ new_text.review_snippets =
                    IF pp.review_snippets = <<>>
                    THEN old_text.review_snippets
                    ELSE Some(StrJoin(SNIPPET_SEPARATOR,
                                      [i \in 1..Len(pp.review_snippets) |->
                                          Val(pp.review_snippets[i])]))]_vars

\* C6 witness: a re-scrape without a city changed the name and kept the city.
C6_Witness ==
    /\ calls = MaxMergeSaves
    /\ last.ok
    /\ Len(contractors) = 1
    /\ IsNone(last.listing.city)
    /\ contractors[1].city = Some(<<"E", "l", "m">>)
    /\ contractors[1].contractor_name = Some(<<"B", "x">>)
    /\ TextRowOf(contractor_text, 1).about_text = Some(<<"n", "e", "w">>)


(***************************************************************************)
(* Properties of a scrape run                                              *)
(***************************************************************************)
\* C8: on every exit path of a scrape run (normal completion, the early
\* return when no listings are found, an unrecoverable error), every session
\* the listing scraper or the profile scraper opened has been closed before
\* the run ends: when main is done, no scraper holds a session.
C8_SessionsClosed ==
    run_pc = "done" => \A s \in Scrapers : ~driver[s]

\* what main does to listings[i]: a skip, or a fetch followed by a save
StepsOf(listing, i) ==
    IF TruthyStr(listing.profile_url) THEN << <<"fetch", i>>, <<"save", i>> >>
    ELSE << <<"skip", i>> >>

\* what a run does to listings[1..k], in order
RECURSIVE StepsUpTo(_, _)
StepsUpTo(listings, k) ==
    IF k = 0 THEN <<>> ELSE StepsUpTo(listings, k - 1) \o StepsOf(listings[k], k)

EventSteps == [i \in 1..Len(run_events) |-> <<run_events[i].kind, run_events[i].idx>>]

OkSaves == {i \in 1..Len(run_events) : run_events[i].kind = "save" /\ run_events[i].ok}

\* C9: a run over listings l1..ln processes them strictly in order and one
\* at a time (profile fetch of li, then save of li, before anything of
\* li+1); a failed navigation, extraction or save of li does not keep
\* li+1..ln from being processed: a run that ends normally has processed
\* every listing; the saved count is the number of saves that returned an
\* entity, and each of those is a stored contractor.
C9_SequentialIsolated ==
    /\ run_pc = "loop" => EventSteps = StepsUpTo(run_listings, run_idx - 1)
    /\ run_pc = "fetched" =>
          EventSteps = StepsUpTo(run_listings, run_idx - 1) \o << <<"fetch", run_idx>> >>
    /\ run_exit = "normal" => EventSteps = StepsUpTo(run_listings, Len(run_listings))
    /\ saved_count = Cardinality(OkSaves)
    /\ \A i \in OkSaves : run_events[i].id \in 1..Len(contractors)

\* C9 witness: a run that ended normally after the first listing's profile
\* could not be fetched and its save failed, with the second listing saved
C9_Witness ==
    /\ run_exit = "normal"
    /\ Len(run_listings) = 2
    /\ Len(run_events) = 4
    /\ ~run_events[1].ok
    /\ ~run_events[2].ok
    /\ run_events[4].ok
    /\ saved_count = 1

(***************************************************************************)
(* Properties of _safe_navigate                                            *)
(***************************************************************************)
\* an attempt that loaded the page without a soft-block marker and ran to
\* its end without raising
Completed(a) == a.outcome = "ok"

C10_Bounded ==
    /\ nav_result \in {"none", "true", "false"}
    /\ nav_loads <= nav_max
    /\ nav_loads = Len(nav_log)
    /\ nav_pc = "loop" => nav_result = "none" /\ \A i \in 1..Len(nav_log) : ~Completed(nav_log[i])
    /\ nav_pc = "done" => nav_result \in {"true", "false"}

C10_Result ==
    nav_pc = "done" =>
       /\ nav_result = "true" <=> \E i \in 1..Len(nav_log) : Completed(nav_log[i])
       /\ nav_result = "true" =>
             /\ Completed(nav_log[Len(nav_log)])
             /\ \A i \in 1..(Len(nav_log) - 1) : ~Completed(nav_log[i])
       /\ nav_result = "false" =>
             \/ driver[nav_scraper] /\ Len(nav_log) = nav_max
             \/ ~driver[nav_scraper] /\ nav_loads = 0
       /\ nav_max = 0 => nav_result = "false" /\ nav_loads = 0

\* C10: _safe_navigate(url, max_retries) terminates after at most max_retries
\* page loads and returns a boolean without raising: true at the first
\* attempt that loads without a soft-block marker and does not raise, false
\* when every one of the max_retries attempts was soft-blocked or raised, and
\* false without a page load when max_retries is 0 or no session can be
\* created.
C10_NavigateTerminates ==
    /\ [](C10_Bounded /\ C10_Result)
    /\ (nav_pc = "loop") ~> (nav_pc = "done")

\* C10 witness: a call that returned true at its third attempt, after a
\* soft-blocked attempt and an attempt that raised
C10_Witness ==
    /\ nav_pc = "done"
    /\ nav_result = "true"
    /\ Len(nav_log) = 3
    /\ SoftBlocked(nav_log[1].outcome)
    /\ nav_log[2].outcome \in {"load_error", "scroll_error"}
    /\ nav_loads = 3


(***************************************************************************)
(* Properties of scrape_profile                                            *)
(***************************************************************************)
\* C11: scrape_profile never raises, and on any failure (the navigation
\* fails, or a step of the extraction raises at any point of the sequence)
\* the record it returns has every scalar field null and review_snippets
\* empty: fields extracted before the failing step are not returned.
C11_FailureAllNull ==
    (run_pc = "fetched" /\ ~run_events[Len(run_events)].ok) => run_profile = ProfileNull

\* C18: when a scraper's session cannot be created the run stops without
\* saving an entity built from that scraper's empty result: no save follows
\* a profile fetch that had no session.
C18_NoSessionAborts ==
    \A i \in 1..Len(run_events) :
        (run_events[i].kind = "fetch" /\ ~run_events[i].session) =>
            \A j \in (i + 1)..Len(run_events) :
                ~(run_events[j].kind = "save" /\ run_events[j].ok)


(***************************************************************************)
(* Properties of calculate_data_confidence                                 *)
(***************************************************************************)
\* a value is present: non-null for the numeric fields, non-empty for
\* strings and lists
Present(field, value) ==
    CASE field \in {"rating", "years_in_business"} -> ~IsNone(value)
      [] field = "review_snippets" -> value # <<>>
      [] OTHER -> ~IsNone(value) /\ Val(value) # <<>>

\* the number of satisfied items among the ten tracked ones
SatisfiedItems(l, p) ==
      Point(Present("contractor_name", l.contractor_name))
    + Point(Present("city", l.city) /\ Present("state", l.state))
    + Point(Present("rating", l.rating))
    + Point(Present("profile_url", l.profile_url))
    + Point(Present("address", p.address))
    + Point(Present("phone", p.phone))
    + Point(Present("years_in_business", p.years_in_business))
    + Point(Present("employee_range", p.employee_range))
    + Point(Present("about_text", p.about_text))
    + Point(Present("review_snippets", p.review_snippets))

Bucket(count) == IF count >= 8 THEN "high" ELSE IF count >= 5 THEN "medium" ELSE "low"

\* C12: the confidence of a pair is the bucket of the number of satisfied
\* items among the ten tracked ones, an item being satisfied when its value
\* is present (a rating of 0.0 and 0 years in business count as present):
\* 8 or more is high, 5 to 7 medium, 4 or less low.
C12_ScoreIsBucket ==
    call.op = "score" => call.level = Bucket(SatisfiedItems(call.listing, call.profile))

LevelRank(level) == CASE level = "low" -> 0 [] level = "medium" -> 1 [] OTHER -> 2

\* the field of the call was missing in the pair
MissingBefore ==
    IF call.field \in ListingTracked
    THEN ~Present(call.field, call.listing[call.field])
    ELSE ~Present(call.field, call.profile[call.field])

\* C13: scoring is monotonic: giving a tracked field that is missing in a
\* pair any present value yields a score that is not lower and a bucket that
\* is not lower (low < medium < high).
C13_ScoreMonotonic ==
    (call.op = "score_add" /\ MissingBefore) =>
        /\ call.after_score >= call.score
        /\ LevelRank(call.after_level) >= LevelRank(call.level)

\* C13 witness: a missing rating set to 0 lifts a pair from medium to high
C13_Witness ==
    /\ call.op = "score_add"
    /\ MissingBefore
    /\ call.field = "rating"
    /\ call.score = 7
    /\ call.after_score = 8
    /\ call.level = "medium"
    /\ call.after_level = "high"


(***************************************************************************)
(* Properties of _clean_phone                                              *)
(***************************************************************************)
IsDigits(str) == \A i \in 1..Len(str) : str[i] \in DigitChars

TenDigits(str) == Len(str) = 10 /\ IsDigits(str)

\* the input without its formatting characters (everything but the digits
\* and "+"), and the number of its digits
Unformatted(phone) ==
    IF IsNone(phone) THEN <<>>
    ELSE SelectSeq(Val(phone), LAMBDA c : c \in DigitChars \/ c = "+")

DigitCount(phone) == Len(SelectSeq(Unformatted(phone), LAMBDA c : c \in DigitChars))

\* the national number of an input of one of the three accepted shapes: 10
\* digits, "+1" and 10 digits, "1" and 10 digits; None for any other input
NationalNumber(phone) ==
    LET u == Unformatted(phone)
    IN  IF TenDigits(u) THEN Some(u)
        ELSE IF StartsWith(u, <<"+", "1">>) /\ TenDigits(SubSeq(u, 3, Len(u)))
             THEN Some(SubSeq(u, 3, Len(u)))
        ELSE IF Len(u) = 11 /\ IsDigits(u) /\ u[1] = "1" THEN Some(SubSeq(u, 2, 11))
        ELSE None

C15_YearsConsistent ==
    call.op = "years" =>
        /\ ~IsNone(call.start_year) =>
              /\ call.years = Some(current_year - Val(call.start_year))
              /\ call.norm_start_year = call.start_year
              /\ call.norm_years = call.years
        /\ (~IsNone(call.parsed) /\ Val(call.parsed) < 1800) =>
              IsNone(call.start_year) /\ IsNone(call.norm_start_year)
        /\ IsNone(call.years) <=> IsNone(call.start_year)
        /\ IsNone(call.norm_years) <=> IsNone(call.norm_start_year)

\* C20: start-year extraction accepts a parsed 4-digit year y if and only if
\* 1800 <= y <= current_year, whatever the current year is.
C20_StartYearRange ==
    (call.op = "years" /\ ~IsNone(call.parsed)) =>
        (~IsNone(call.start_year) <=>
            (1800 <= Val(call.parsed) /\ Val(call.parsed) <= current_year))


(***************************************************************************)
(* More properties of the storage layer                                    *)
(***************************************************************************)
\* C16: a save whose listing has a null external id is always treated as
\* new: each such successful save adds exactly one entity and changes no
\* field, certification or text blob of an entity stored before the call.
C16_NullIdAlwaysNew ==
    [][(IsSaveStep /\ last'.ok /\ IsNone(last'.listing.external_contractor_id))
       => /\ Len(contractors') = Len(contractors) + 1
          /\ last'.id = Len(contractors')
          /\ SubSeq(contractors', 1, Len(contractors)) = contractors
          /\ SelectSeq(certifications', LAMBDA r : r.contractor_id <= Len(contractors))
                = certifications
          /\ SelectSeq(contractor_text', LAMBDA r : r.contractor_id <= Len(contractors))
                = contractor_text]_vars

\* C16 witness: the same listing without external id was saved twice and is
\* stored twice
C16_Witness ==
    /\ calls = 2
    /\ last.ok
    /\ IsNone(last.listing.external_contractor_id)
    /\ Len(contractors) = 2
    /\ IsNone(contractors[1].external_contractor_id)
    /\ contractors[1].contractor_name = contractors[2].contractor_name
    /\ Len(contractor_text) = 2


\* the raw certification strings of a listing that save stores a row for
RawCertTexts(listing) ==
    SelectSeq(listing.certifications, LAMBDA c : NormalizeCertification(c) # <<>>)

\* C19: every certification row stored by save has name equal to the
\* normalized certification name and original_text equal to the raw string
\* scraped from the listing (the value before normalization).
C19_CertOriginalText ==
    [][(IsSaveStep /\ last'.ok /\ NormalizedCertNames(last'.listing) # <<>>)
       => LET rows == CertRowsOf(certifications', last'.id)
          IN  /\ [i \in 1..Len(rows) |-> rows[i].name] = NormalizedCertNames(last'.listing)
              /\ [i \in 1..Len(rows) |-> rows[i].original_text] = RawCertTexts(last'.listing)]_vars


\* C17: the freshness report returns for every store state: over 0 entities
\* every count is 0 and the rate is 0.0; otherwise fresh_7d <= fresh_30d <=
\* fresh_90d <= total, stale_30d = total - fresh_30d, stale_90d = total -
\* fresh_90d, and the 30-day rate is 100 * fresh_30d / total.
C17_FreshnessReport ==
    call.op = "freshness" =>
        LET r == call.report
        IN  /\ r.total = Len(contractors)
            /\ r.freshness_rate_30d.den > 0
            /\ r.total = 0 =>
                  /\ r.fresh_7d = 0 /\ r.fresh_30d = 0 /\ r.fresh_90d = 0
                  /\ r.stale_30d = 0 /\ r.stale_90d = 0
                  /\ r.freshness_rate_30d.num = 0
            /\ r.total > 0 =>
                  /\ 0 <= r.fresh_7d /\ r.fresh_7d <= r.fresh_30d
                  /\ r.fresh_30d <= r.fresh_90d /\ r.fresh_90d <= r.total
                  /\ r.stale_30d = r.total - r.fresh_30d
                  /\ r.stale_90d = r.total - r.fresh_90d
                  /\ r.freshness_rate_30d.num * r.total
                        = 100 * r.fresh_30d * r.freshness_rate_30d.den

\* C17 witness: a report over two entities, one scraped within 30 days but
\* not within 7, the other within 90 days but not within 30
C17_Witness ==
    /\ call.op = "freshness"
    /\ call.report.total = 2
    /\ call.report.fresh_7d = 0
    /\ call.report.fresh_30d = 1
    /\ call.report.fresh_90d = 2
    /\ call.report.stale_30d = 1
    /\ call.report.freshness_rate_30d = [num |-> 100, den |-> 2]

(***************************************************************************)
(* Properties of the field extractors                                      *)
(***************************************************************************)
EmployeeLabels ==
    { <<"1", "-", "1", "0">>, <<"1", "1", "-", "5", "0">>,
      <<"5", "1", "-", "2", "0", "0">>, <<"2", "0", "1", "+">> }

\* C21: employee-range extraction uses one threshold table on all its
\* integer paths: the range of "more than n", "over n", "less than n" and
\* "under n" is the range of the bare integer n, and every range computed
\* from an integer is one of 1-10, 11-50, 51-200, 201+.
C21_OneThresholdTable ==
    (call.op = "employee_range"
     /\ call.form \in {"bare", "more than", "over", "less than", "under"})
    => /\ call.result = ExtractEmployeeRange(Some(StrOfInt(call.n)))
       /\ ~IsNone(call.result) /\ Val(call.result) \in EmployeeLabels

\* the text of s before its first comma, and after it
BeforeComma(s) == StrSplit(s, ",")[1]
AfterComma(s) == SubSeq(s, Len(BeforeComma(s)) + 2, Len(s))

\* C22 as stated: for a text "<city>, <rest> - <d> mi" the city is the text
\* before the first comma and the state is the first 2 characters of the
\* upper-cased trimmed text after the first comma (the distance removed);
\* for a text without a comma city and state are both null.
C22_CityStateFirstComma ==
    call.op = "city_state" =>
       IF call.shaped
       THEN /\ ~IsNone(call.result)
            /\ Val(call.result).city = call.city
            /\ Val(call.result).state = Prefix(StrUpper(StrStrip(call.rest)), 2)
       ELSE IsNone(call.result)

\* C22 amended: the text is split on every comma and each piece is trimmed:
\* the city is the trimmed text before the first comma, the state is the
\* first 2 characters of the upper-cased trimmed text between the first
\* comma and the next one (or the end); the distance is removed before the
\* split only when it is written with a fractional part; for a text without
\* a comma city and state are both null.
C22_CityStateSplit ==
    call.op = "city_state" =>
       IF call.shaped
       THEN LET fractional == \E i \in 1..Len(call.distance) : call.distance[i] = "."
                tail == IF fractional THEN call.rest
                        ELSE call.rest \o <<" ", "-", " ">> \o call.distance \o <<" ", "m", "i">>
            IN  /\ ~IsNone(call.result)
                /\ Val(call.result).city = StrStrip(call.city)
                /\ Val(call.result).state =
                      Prefix(StrUpper(StrStrip(BeforeComma(tail))), 2)
       ELSE IsNone(call.result)

\* a lower-case state after a city, followed by a distance, was parsed; and
\* so was a text whose state is followed by a second comma
C22_Witness ==
    /\ call.op = "city_state" /\ call.shaped
    /\ call.rest = <<"N", "J", ",", " ", "U", "S", "A">>
    /\ call.city = <<"E", "l", "m", " ">>
    /\ Val(call.result) = [city |-> <<"E", "l", "m">>, state |-> <<"N", "J">>]

(***************************************************************************)
(* Properties of the attempts of _safe_navigate                            *)
(***************************************************************************)
\* the title of the page of attempt a holds "Access Denied" or "Forbidden"
TitleHasMarker(a) == a.outcome \in {"denied", "forbidden"}

\* what the attempts made so far did
C23_Attempts ==
    /\ nav_result = "true" =>
          /\ nav_log # <<>>
          /\ ~TitleHasMarker(nav_log[Len(nav_log)])
          /\ nav_log[Len(nav_log)].scrolled
    /\ \A i \in 1..Len(nav_log) :
          TitleHasMarker(nav_log[i]) =>
             ~nav_log[i].scrolled /\ nav_log[i].sleep = "backoff"

\* a page load that follows a soft-blocked attempt follows its backoff sleep
C23_BackoffBeforeLoad ==
    (nav_loads' = nav_loads + 1 /\ nav_log # <<>> /\ TitleHasMarker(nav_log[Len(nav_log)]))
    => /\ nav_log[Len(nav_log)].sleep = "backoff"
       /\ ~nav_log[Len(nav_log)].scrolled
       /\ nav_result = "none"

\* C23: _safe_navigate returns true only for an attempt whose title holds no
\* soft-block marker and only after the scroll to the bottom ran on that
\* page; after a soft-blocked attempt the page is not scrolled and a backoff
\* sleep precedes the next page load.
C23_SuccessAfterScroll ==
    /\ []C23_Attempts
    /\ [][C23_BackoffBeforeLoad]_vars

\* a call that returned true at its second attempt, after an attempt whose
\* title held "Forbidden"
C23_Witness ==
    /\ nav_pc = "done"
    /\ nav_result = "true"
    /\ Len(nav_log) = 2
    /\ nav_log[1].outcome = "forbidden"
    /\ nav_log[1].sleep = "backoff"
    /\ nav_log[2].scrolled

\* C24: _clean_text returns None or a non-empty string that holds no
\* control character, neither starts nor ends with whitespace and has no two
\* adjacent whitespace characters; it returns None exactly when nothing but
\* whitespace and control characters is in the text.
C24_CleanTextShape ==
    call.op = "clean_text" =>
       LET r == call.result
           remains == ~IsNone(call.text)
                      /\ \E i \in 1..Len(Val(call.text)) :
                            Val(call.text)[i] \notin WhitespaceChars \cup ControlChars
       IN  /\ IsNone(r) <=> ~remains
           /\ ~IsNone(r) =>
                 /\ Val(r) # <<>>
                 /\ \A i \in 1..Len(Val(r)) : Val(r)[i] \notin ControlChars
                 /\ Val(r)[1] \notin WhitespaceChars
                 /\ Val(r)[Len(Val(r))] \notin WhitespaceChars
                 /\ \A i \in 1..(Len(Val(r)) - 1) :
                       ~(Val(r)[i] \in WhitespaceChars /\ Val(r)[i + 1] \in WhitespaceChars)

(***************************************************************************)
(* Properties of the saves of parsed cards                                 *)
(***************************************************************************)
\* a step that parses a card and saves its listing
IsCardSave == IsSaveStep /\ call'.op = "parse_listing"

\* the three tables are left as they were
StoreUnchanged ==
    /\ contractors' = contractors
    /\ certifications' = certifications
    /\ contractor_text' = contractor_text

C25_NullStateFails ==
    IsCardSave =>
       /\ (\/ IsNone(call'.card.city_elem)
           \/ \A i \in 1..Len(Val(call'.card.city_elem)) : Val(call'.card.city_elem)[i] # ",")
          => IsNone(last'.listing.state)
       /\ IsNone(last'.listing.state) => ~last'.ok /\ last'.id = 0 /\ StoreUnchanged

\* C25: the listing of a card without a location element, or whose location
\* has no comma, has a null state; saving a listing whose state is null
\* fails (its normalization raises) and leaves the three tables unchanged,
\* so no stored contractor comes from such a listing, whatever its other
\* fields.
C25_NullStateNeverSaved ==
    /\ [][C25_NullStateFails]_vars
    /\ [](\A i \in 1..Len(contractors) : ~IsNone(contractors[i].state))

\* a card with a name, a rating, a profile link and an id but no location
\* was saved after another save had stored a contractor: the save failed
C25_Witness ==
    /\ call.op = "parse_listing"
    /\ IsNone(call.card.city_elem)
    /\ IsNone(last.listing.state)
    /\ TruthyStr(last.listing.contractor_name)
    /\ last.listing.external_contractor_id = Some(<<"1">>)
    /\ ~last.ok
    /\ Len(contractors) = 1

\* a step that saves a parsed card onto a contractor already stored
IsCardUpdate == IsCardSave /\ last'.ok /\ last'.id <= Len(contractors)

C27_CountOverwritten ==
    IsCardUpdate =>
       LET old == contractors[last'.id]
           new == contractors'[last'.id]
       IN  /\ IsNone(call'.card.count_elem) => last'.listing.review_count = Some(0)
           /\ ~IsNone(last'.listing.review_count)
                 => new.review_count = last'.listing.review_count
           /\ IsNone(last'.listing.review_count) => new.review_count = old.review_count
           /\ IsNone(last'.listing.rating) => new.rating = old.rating

\* C27: an update overwrites the stored review_count by the review_count of
\* the new listing whenever that is not null, the 0 that a card without a
\* review counter yields included (a stored positive count is reset to 0),
\* while the stored rating is kept when the new rating is null.
C27_ReviewCountReset == [][C27_CountOverwritten]_vars

\* the contractor stored from the complete card (rating 4, 7 reviews) was
\* saved again from its card without rating and counter: the count is 0 and
\* the rating still 4
C27_Witness ==
    /\ calls = 2
    /\ call.op = "parse_listing"
    /\ IsNone(call.card.count_elem)
    /\ last.ok /\ last.id = 1 /\ Len(contractors) = 1
    /\ IsNone(last.listing.rating)
    /\ contractors[1].rating = Some(4)
    /\ contractors[1].review_count = Some(0)

\* calculate_data_confidence over what is stored for contractor cid: the
\* row of the contractor and its text row
StoredLevel(cid) ==
    LET row == contractors[cid]
        text == TextRowOf(contractor_text, cid)
    IN  CalculateDataConfidence(
            [contractor_name |-> row.contractor_name, city |-> row.city,
             state |-> row.state, rating |-> row.rating, profile_url |-> row.profile_url],
            [address |-> row.address, phone |-> row.phone,
             years_in_business |-> row.years_in_business,
             employee_range |-> row.employee_range,
             about_text |-> text.about_text,
             review_snippets |->
                 IF TruthyStr(text.review_snippets) THEN <<Val(text.review_snippets)>>
                 ELSE <<>>])

C26_ConfidenceOfSave ==
    IsCardUpdate =>
       contractors'[last'.id].data_confidence =
          CalculateDataConfidence(ProcessListingData(last'.listing).value,
                                  ProcessProfileData(last'.profile, current_year))

\* C26: after a successful update of a stored contractor its
\* data_confidence is the level computed from the normalized listing and
\* profile of that save alone, whatever the stored fields hold (so it can be
\* lower than the level of the merged contractor that is stored).
C26_ConfidenceFromSaveAlone == [][C26_ConfidenceOfSave]_vars

\* a contractor stored with every field was saved again from a card without
\* rating and with the all-null profile: it is stored with the level "low"
\* while its stored fields score "high"
C26_Witness ==
    /\ call.op = "parse_listing"
    /\ last.ok /\ last.id = 1 /\ calls >= 2
    /\ last.profile = ProfileNull
    /\ contractors[1].data_confidence = "low"
    /\ \E k \in 1..Len(contractor_text) : contractor_text[k].contractor_id = 1
    /\ StoredLevel(1) = "high"

(***************************************************************************)
(* Properties of a run whose profile navigation fails                      *)
(***************************************************************************)
StoredProfileFields ==
    {"years_in_business", "business_start_year", "employee_range",
     "state_license_number", "address", "phone"}

\* scrape_profile returns the all-null record whenever its navigation fails
C28_FailedNavigationAllNull ==
    \A has \in BOOLEAN, setup \in SetupOutcomes, o \in NavScripts, page \in ProfilePages :
       ~SafeNavigate(has, setup, o).ok
          => ScrapeProfile(has, setup, o, page, current_year).profile_data = ProfileNull

\* the step that follows a profile fetch in the loop is the save of that
\* listing with the fetched record; when the record is the all-null one and
\* the save succeeds, a new contractor holds the normalized listing fields
\* and no profile value, and a stored one keeps its profile fields and text
C28_SaveAfterFetch ==
    (run_pc = "fetched" /\ run_pc' = "loop") =>
       /\ IsSaveStep
       /\ last'.listing = run_listings[run_idx] /\ last'.profile = run_profile
       /\ (run_profile = ProfileNull /\ last'.ok) =>
             LET cid == last'.id
                 new == contractors'[cid]
                 listing == ProcessListingData(last'.listing).value
             IN  IF cid > Len(contractors)
                 THEN /\ \A f \in StoredProfileFields : IsNone(new[f])
                      /\ \A f \in {"contractor_name", "rating", "review_count", "city",
                                   "state", "profile_url", "external_contractor_id"} :
                            new[f] = listing[f]
                      /\ IsNone(TextRowOf(contractor_text', cid).about_text)
                      /\ IsNone(TextRowOf(contractor_text', cid).review_snippets)
                 ELSE /\ \A f \in StoredProfileFields : new[f] = contractors[cid][f]
                      /\ contractor_text' = contractor_text

\* C28: when the navigation to a profile fails, scrape_profile returns the
\* all-null record and main still saves the listing with it: a new
\* external id gets a contractor made of the listing fields alone, and a
\* stored contractor keeps its years, start year, employee range, license,
\* address, phone, about_text and review_snippets.
C28_FailedProfileKeepsStored ==
    /\ []C28_FailedNavigationAllNull
    /\ [][C28_SaveAfterFetch]_vars

\* a run saved a contractor with its profile, then met the same contractor
\* again, failed to fetch the profile and saved it with the all-null
\* record: phone and about_text are still stored
C28_Witness ==
    /\ Len(run_events) = 4
    /\ run_events[1].kind = "fetch" /\ run_events[1].ok
    /\ run_events[2].kind = "save" /\ run_events[2].ok /\ run_events[2].id = 1
    /\ run_events[3].kind = "fetch" /\ ~run_events[3].ok
    /\ run_events[4].kind = "save" /\ run_events[4].ok /\ run_events[4].id = 1
    /\ run_profile = ProfileNull
    /\ ~IsNone(contractors[1].phone)
    /\ ~IsNone(contractor_text[1].about_text)

\* C29: at every instant and for every store, stale_30d of the freshness
\* report is the number of contractors get_stale_contractors(30) returns,
\* and fresh_30d plus that number is the total: a contractor is counted as
\* fresh or as stale, never both and never neither, also when it was scraped
\* exactly 30 days ago.
C29_StaleIsNotFresh ==
    call.op = "check_db" =>
       /\ call.report.stale_30d = call.stale_30d
       /\ call.report.fresh_30d + call.stale_30d = call.report.total

\* C30: for every value v of a tel: link, _extract_phone (which strips a
\* leading "+1", or the leading "1" of an 11-character value) followed by
\* _clean_phone gives what _clean_phone gives on v: the two stages together
\* accept exactly the values the normalization alone accepts, with the same
\* result.
C30_ExtractThenCleanIsClean ==
    call.op = "extract_phone" => call.result = call.direct

=============================================================================
